---- MODULE Spec2Model ----
(***************************************************************************)
(* Classic Traveller character generator: the resumable random stream,     *)
(* the stateless rules engine (character_generation_rules.py) and the      *)
(* request handlers that load a record, resume the stream, run one engine  *)
(* operation and store the record again (app.py).                          *)
(*                                                                         *)
(* random.Random is modelled as a deterministic generator whose state is   *)
(* the pair (seed, pos): pos counts the primitive draws made since the     *)
(* generator was seeded, and the value of draw number pos is Raw(seed,pos).*)
(***************************************************************************)
EXTENDS Integers, Sequences, FiniteSets, TLC

VARIABLES
    character,  \* the character record (the dict the caller / characters_db holds)
    rng,        \* the caller's live random.Random object
    file,       \* the record's JSON file on disk: <<>> if none, else <<record>>
    raised,     \* exception raised by the last operation, "none" if it returned
    consumed,   \* ghost: spans of stream positions drawn, one per operation, in order
    resumed,    \* result of the last get_random_generator(character) call
    generated,  \* ghost: generate_characteristic results at the current checkpoint
    cached      \* whether characters_db holds the record (else only the JSON file does)

vars == <<character, rng, file, raised, consumed, resumed, generated, cached>>

----------------------------------------------------------------------------
(* Bounds of the model *)

NumSeeds == 2
MaxDraws == 4
MaxK == 3

Seeds == 0 .. (NumSeeds - 1)

----------------------------------------------------------------------------
(* Random Stream Manager *)

CharNames ==
    {"strength", "dexterity", "endurance", "intelligence", "education", "social"}

\* Value of primitive draw number pos of the generator seeded with seed.
Raw(seed, pos) ==
    (35 * (seed + 1) * (pos + 1) + 34 * pos * pos + 18 * seed * seed
        + 20 * (seed + pos) * (seed + pos) * (pos + 1)) % 73

Random(seed) == [seed |-> seed, pos |-> 0]

set_seed(seed) == Random(seed)

\* random_generator.randint(1, 6)
randint(g) == [value |-> 1 + (Raw(g.seed, g.pos) % 6), rng |-> [g EXCEPT !.pos = @ + 1]]

\* random_generator.random(): the raw draw stands for the float
random(g) == [value |-> Raw(g.seed, g.pos), rng |-> [g EXCEPT !.pos = @ + 1]]

\* random_generator.choice(seq) as the 1-based index of the element chosen
choice(g, n) == [value |-> 1 + (Raw(g.seed, g.pos) % n), rng |-> [g EXCEPT !.pos = @ + 1]]

roll_2d6(g) ==
    LET a == randint(g)
        b == randint(a.rng)
    IN  [value |-> a.value + b.value, rng |-> b.rng]

\* Python values a record's random_state can hold.  kind "tuple" is what
\* getstate() returns; "list" is the same state after a JSON round trip;
\* the other kinds are malformed values.
None == [kind |-> "None", seed |-> 0, pos |-> 0]

getstate(g) == [kind |-> "tuple", seed |-> g.seed, pos |-> g.pos]

MalformedKinds == {"list", "str", "int", "dict", "short", "negative"}

Truthy(state) == state.kind # "None"

\* Exception random.Random.setstate(state) raises, "none" if it accepts state.
setstate_error(state) ==
    CASE state.kind = "tuple"    -> "none"
      [] state.kind = "list"     -> "TypeError"      \* state vector must be a tuple
      [] state.kind = "int"      -> "TypeError"      \* not subscriptable
      [] state.kind = "str"      -> "ValueError"     \* unknown state version
      [] state.kind = "short"    -> "ValueError"     \* not enough values to unpack
      [] state.kind = "dict"     -> "KeyError"       \* state[0]
      [] state.kind = "negative" -> "OverflowError"  \* negative word in the vector
      [] OTHER                   -> "TypeError"

setstate(state) == [seed |-> state.seed, pos |-> state.pos]

get_random_generator_reseed(character_record) ==
    [rng |-> Random(character_record.seed), raised |-> "none"]

get_random_generator(character_record) ==
    LET seed == character_record.seed
        random_generator == Random(seed)
        state == character_record.random_state
    IN  IF Truthy(state)
        THEN IF setstate_error(state) = "none"
             THEN [rng |-> setstate(state), raised |-> "none"]
             ELSE IF setstate_error(state) \in {"ValueError", "TypeError"}
                  THEN [rng |-> Random(seed), raised |-> "none"]
                  ELSE [rng |-> random_generator, raised |-> setstate_error(state)]
        ELSE [rng |-> random_generator, raised |-> "none"]

save_random_state(character_record, random_generator) ==
    [character_record EXCEPT !.random_state = getstate(random_generator)]

\* Seed of the characteristic-specific generator: f"{random()}_{characteristic}"
CharIndex(characteristic) ==
    CASE characteristic = "strength"     -> 1
      [] characteristic = "dexterity"    -> 2
      [] characteristic = "endurance"    -> 3
      [] characteristic = "intelligence" -> 4
      [] characteristic = "education"    -> 5
      [] OTHER                           -> 6

char_seed(draw, characteristic) == 100 + 7 * draw + CharIndex(characteristic)

generate_characteristic_norestore(g, characteristic) ==
    LET r == random(g)
        characteristic_random_generator == Random(char_seed(r.value, characteristic))
    IN  [value |-> roll_2d6(characteristic_random_generator).value, rng |-> r.rng]

generate_characteristic(g, characteristic) ==
    LET original_state == getstate(g)
        r == random(g)
        characteristic_random_generator == Random(char_seed(r.value, characteristic))
        value == roll_2d6(characteristic_random_generator).value
    IN  [value |-> value, rng |-> setstate(original_state)]

RECURSIVE DrawK(_, _)
\* The next k randint(1, 6) values of generator g.
DrawK(g, k) ==
    IF k = 0 THEN <<>>
    ELSE LET d == randint(g) IN <<d.value>> \o DrawK(d.rng, k - 1)

----------------------------------------------------------------------------
(* Character record *)

NoCharacteristics == [c \in {} |-> 0]
NoSkills == [s \in {} |-> 0]

NoBenefits == [done |-> FALSE, cash |-> 0, items |-> <<>>]

\* create_character_record(); the optional keys (career, drafted,
\* commissioned, rank, terms, mustering_out_benefits) are absent at first:
\* career "" stands for the absent key, the others for the default every
\* read of them uses.
create_character_record ==
    [name |-> <<0, 0>>,
     age |-> 18,
     terms_served |-> 0,
     characteristics |-> NoCharacteristics,
     skills |-> NoSkills,
     career_history |-> <<>>,
     skill_eligibility |-> 0,
     seed |-> 77,
     random_state |-> None,
     career |-> "",
     drafted |-> FALSE,
     commissioned |-> FALSE,
     rank |-> 0,
     terms |-> <<>>,
     mustering_out_benefits |-> NoBenefits]

----------------------------------------------------------------------------
(* Rule tables and the Career Progression Engine.  Every operation takes   *)
(* the generator and the record and yields the generator after its draws,  *)
(* the record after its updates and the exception it raised ("none" when   *)
(* it returned).                                                           *)

Services == <<"Navy", "Marines", "Army", "Scouts", "Merchants", "Others">>

get_available_services == Services

Get(characteristics, char) ==
    IF char \in DOMAIN characteristics THEN characteristics[char] ELSE 0

RECURSIVE SumBonuses(_, _)
\* for char, req, bonus in bonuses: if characteristics.get(char, 0) >= req: modifier += bonus
SumBonuses(characteristics, bonuses) ==
    IF bonuses = <<>> THEN 0
    ELSE (IF Get(characteristics, Head(bonuses)[1]) >= Head(bonuses)[2]
          THEN Head(bonuses)[3] ELSE 0)
         + SumBonuses(characteristics, Tail(bonuses))

\* the ValueErrors the engine raises, by message
ValueErrors ==
    {"ValueError: Character record missing required field: 'career'",
     "ValueError: Character cannot retire",
     "ValueError: Character has no skill eligibilities available",
     "ValueError: Invalid table choice",
     "ValueError: Table not available",
     "ValueError: Character must have a current career to muster out"}

Returned(g, rec) == [rng |-> g, rec |-> rec, raised |-> "none"]

Raised(g, rec, exception) == [rng |-> g, rec |-> rec, raised |-> exception]

get_enlistment_target_default(service) == 5

get_enlistment_target(service) ==
    CASE service = "Navy"      -> 8
      [] service = "Marines"   -> 9
      [] service = "Army"      -> 5
      [] service = "Scouts"    -> 7
      [] service = "Merchants" -> 7
      [] service = "Others"    -> 3
      [] OTHER                 -> 5

enlistment_bonuses(service) ==
    CASE service = "Navy"      -> << <<"intelligence", 8, 1>>, <<"education", 9, 2>> >>
      [] service = "Marines"   -> << <<"intelligence", 8, 1>>, <<"strength", 8, 2>> >>
      [] service = "Army"      -> << <<"dexterity", 6, 1>>, <<"endurance", 5, 2>> >>
      [] service = "Scouts"    -> << <<"intelligence", 6, 1>>, <<"strength", 8, 2>> >>
      [] service = "Merchants" -> << <<"strength", 7, 1>>, <<"intelligence", 6, 2>> >>
      [] OTHER                 -> <<>>

get_enlistment_modifiers(characteristics, service) ==
    SumBonuses(characteristics, enlistment_bonuses(service))

get_draft_service_navy(g) ==
    LET r == randint(g) IN [value |-> Services[1], rng |-> r.rng]

get_draft_service(g) ==
    LET r == randint(g) IN [value |-> Services[r.value], rng |-> r.rng]

eligibilities_always_two(current_terms, assigned_service) == 2

\* First term +2 eligibilities; later terms +1, or +2 for Scouts.
eligibilities_for_term(current_terms, assigned_service) ==
    IF current_terms = 0 THEN 2
    ELSE IF assigned_service = "Scouts" THEN 2 ELSE 1

attempt_enlistment(g, rec, service_choice) ==
    LET target == get_enlistment_target(service_choice)
        modifier == get_enlistment_modifiers(rec.characteristics, service_choice)
        r == roll_2d6(g)
        total == r.value + modifier
        success == total >= target
        draft == get_draft_service(r.rng)
        assigned_service == IF success THEN service_choice ELSE draft.value
        skill_eligibilities_granted ==
            eligibilities_for_term(rec.terms_served, assigned_service)
        enlistment_result ==
            [event_type |-> "enlistment_attempt",
             service |-> service_choice,
             roll |-> r.value,
             modifier |-> modifier,
             target |-> target,
             total |-> total,
             success |-> success,
             outcome |-> IF success THEN "enlisted" ELSE "drafted",
             assigned_service |-> assigned_service,
             skill_eligibilities_granted |-> skill_eligibilities_granted]
    IN  Returned(IF success THEN r.rng ELSE draft.rng,
                 [rec EXCEPT
                    !.career = assigned_service,
                    !.drafted = IF success THEN @ ELSE TRUE,
                    !.skill_eligibility = @ + skill_eligibilities_granted,
                    !.career_history = Append(@, enlistment_result)])

survival_target(career) ==
    CASE career = "Navy"      -> 5
      [] career = "Marines"   -> 6
      [] career = "Army"      -> 5
      [] career = "Scouts"    -> 7
      [] career = "Merchants" -> 5
      [] career = "Others"    -> 5
      [] OTHER                -> 5

survival_bonuses(career) ==
    CASE career = "Navy"      -> << <<"intelligence", 7, 2>> >>
      [] career = "Marines"   -> << <<"endurance", 8, 2>> >>
      [] career = "Army"      -> << <<"education", 6, 2>> >>
      [] career = "Scouts"    -> << <<"endurance", 9, 2>> >>
      [] career = "Merchants" -> << <<"intelligence", 7, 2>> >>
      [] career = "Others"    -> << <<"intelligence", 9, 2>> >>
      [] OTHER                -> <<>>

NoReenlistment == [preference |-> "", roll |-> 0, target |-> 0, outcome |-> ""]

NewTermSurvived(term_number, outcome) ==
    [term_number |-> term_number,
     survival |-> "survived",
     commission |-> FALSE,
     promotions |-> <<>>,
     skills_gained |-> <<>>,
     reenlistment |-> NoReenlistment]

\* A term record; commission, promotions, skills_gained and reenlistment
\* hold the value a read of the absent key yields until they are set.
NewTerm(term_number, outcome) ==
    [term_number |-> term_number,
     survival |-> outcome,
     commission |-> FALSE,
     promotions |-> <<>>,
     skills_gained |-> <<>>,
     reenlistment |-> NoReenlistment]

term_progress_with_survival(rec) ==
    [rec EXCEPT !.age = @ + 4, !.terms_served = @ + 1]

\* age and terms_served are updated in attempt_reenlistment, when the term
\* is completed, not during the survival check
term_progress_at_survival(rec) == rec

check_survival(g, rec, death_rule_enabled) ==
    IF rec.career = "" THEN Raised(g, rec, "KeyError")
    ELSE
    LET career == rec.career
        target == survival_target(career)
        modifier == SumBonuses(rec.characteristics, survival_bonuses(career))
        r == roll_2d6(g)
        total == r.value + modifier
        survived == total >= target
        outcome == IF survived THEN "survived"
                   ELSE IF death_rule_enabled THEN "died" ELSE "injured"
        survival_result ==
            [event_type |-> "survival_check",
             career |-> career,
             roll |-> r.value,
             modifier |-> modifier,
             target |-> target,
             total |-> total,
             success |-> survived,
             outcome |-> outcome]
        current_term == rec.terms_served + 1
    IN  Returned(r.rng,
                 term_progress_at_survival(
                     [rec EXCEPT
                        !.terms = Append(@, NewTerm(current_term, outcome)),
                        !.career_history = Append(@, survival_result)]))

\* character_record["terms"][-1] replaced by term
SetLastTerm(terms, term) == [terms EXCEPT ![Len(terms)] = term]

commission_target_default(career) == 8

commission_target(career) ==
    CASE career = "Navy"      -> 10
      [] career = "Marines"   -> 9
      [] career = "Army"      -> 5
      [] career = "Merchants" -> 4
      [] OTHER                -> 8

commission_bonuses(career) ==
    CASE career = "Navy"      -> << <<"social", 9, 1>> >>
      [] career = "Marines"   -> << <<"education", 7, 1>> >>
      [] career = "Army"      -> << <<"endurance", 7, 1>> >>
      [] career = "Merchants" -> << <<"intelligence", 9, 1>> >>
      [] OTHER                -> <<>>

NotApplicable(event_type, career, reason) ==
    [event_type |-> event_type,
     career |-> career,
     applicable |-> FALSE,
     reason |-> reason,
     success |-> FALSE,
     outcome |-> "not applicable"]

NeverAlreadyCommissioned(rec) == FALSE

\* if character_record.get("commissioned", False): not applicable
AlreadyCommissioned(rec) == rec.commissioned

check_commission(g, rec) ==
    IF rec.career = "" THEN Raised(g, rec, "KeyError")
    ELSE
    LET career == rec.career
        Inapplicable(reason) ==
            Returned(g, [rec EXCEPT !.career_history =
                            Append(@, NotApplicable("commission_check", career, reason))])
        target == commission_target(career)
        modifier == SumBonuses(rec.characteristics, commission_bonuses(career))
        r == roll_2d6(g)
        total == r.value + modifier
        commissioned == total >= target
        commission_result ==
            [event_type |-> "commission_check",
             career |-> career,
             applicable |-> TRUE,
             target |-> target,
             modifier |-> modifier,
             roll |-> r.value,
             total |-> total,
             success |-> commissioned,
             outcome |-> IF commissioned THEN "commissioned as officer"
                         ELSE "not commissioned",
             skill_eligibilities_granted |-> IF commissioned THEN 1 ELSE 0]
    IN  IF AlreadyCommissioned(rec)
        THEN Inapplicable("Already commissioned")
        ELSE IF career \in {"Scouts", "Others"}
        THEN Inapplicable("does not have commissions")
        ELSE IF rec.drafted /\ rec.terms_served < 1
        THEN Inapplicable("Drafted characters cannot be commissioned in first term")
        ELSE IF commissioned
        THEN Returned(r.rng,
                 [rec EXCEPT
                    !.commissioned = TRUE,
                    !.rank = 1,
                    !.skill_eligibility = @ + 1,
                    !.terms = IF @ # <<>>
                              THEN SetLastTerm(@, [@[Len(@)] EXCEPT !.commission = TRUE])
                              ELSE @,
                    !.career_history = Append(@, commission_result)])
        ELSE Returned(r.rng,
                 [rec EXCEPT !.career_history = Append(@, commission_result)])

max_ranks_unlimited(career) == 99

max_ranks(career) ==
    CASE career = "Navy"      -> 6
      [] career = "Marines"   -> 6
      [] career = "Army"      -> 6
      [] career = "Merchants" -> 5
      [] OTHER                -> 6

promotion_target_default(career) == 8

promotion_target(career) ==
    CASE career = "Navy"      -> 8
      [] career = "Marines"   -> 9
      [] career = "Army"      -> 6
      [] career = "Merchants" -> 10
      [] OTHER                -> 8

promotion_bonuses(career) ==
    CASE career = "Navy"      -> << <<"education", 8, 1>> >>
      [] career = "Marines"   -> << <<"social", 8, 1>> >>
      [] career = "Army"      -> << <<"education", 7, 1>> >>
      [] career = "Merchants" -> << <<"intelligence", 9, 1>> >>
      [] OTHER                -> <<>>

check_promotion(g, rec) ==
    IF rec.career = "" THEN Raised(g, rec, "KeyError")
    ELSE
    LET career == rec.career
        current_rank == rec.rank
        Inapplicable(reason) ==
            Returned(g, [rec EXCEPT !.career_history =
                Append(@, NotApplicable("promotion_check", career, reason)
                          @@ [current_rank |-> current_rank])])
        max_rank == max_ranks(career)
        target == promotion_target(career)
        modifier == SumBonuses(rec.characteristics, promotion_bonuses(career))
        r == roll_2d6(g)
        total == r.value + modifier
        promoted == total >= target
        new_rank == current_rank + 1
        promotion_result ==
            [event_type |-> "promotion_check",
             career |-> career,
             current_rank |-> current_rank,
             applicable |-> TRUE,
             target |-> target,
             modifier |-> modifier,
             roll |-> r.value,
             total |-> total,
             success |-> promoted,
             outcome |-> IF promoted THEN "promoted to rank" ELSE "not promoted",
             skill_eligibilities_granted |-> IF promoted THEN 1 ELSE 0]
    IN  IF ~rec.commissioned
        THEN Inapplicable("Character is not commissioned")
        ELSE IF career \in {"Scouts", "Others"}
        THEN Inapplicable("does not have promotions")
        ELSE IF current_rank >= max_rank
        THEN Inapplicable("Character has reached maximum rank")
        ELSE IF rec.terms # <<>> /\ rec.terms[Len(rec.terms)].promotions # <<>>
        THEN Inapplicable("Character has already been promoted this term")
        ELSE IF promoted
        THEN Returned(r.rng,
                 [rec EXCEPT
                    !.rank = new_rank,
                    !.skill_eligibility = @ + 1,
                    !.terms = IF @ # <<>>
                              THEN SetLastTerm(@, [@[Len(@)] EXCEPT !.promotions =
                                       Append(@, [from_rank |-> current_rank,
                                                  to_rank |-> new_rank])])
                              ELSE @,
                    !.career_history = Append(@, promotion_result)])
        ELSE Returned(r.rng,
                 [rec EXCEPT !.career_history = Append(@, promotion_result)])

reenlistment_target(career) ==
    CASE career = "Navy"      -> 6
      [] career = "Marines"   -> 6
      [] career = "Army"      -> 7
      [] career = "Scouts"    -> 3
      [] career = "Merchants" -> 4
      [] OTHER                -> 5

Preferences == {"reenlist", "discharge", "retire"}

retirement_never_refused(preference, terms_served) == FALSE

\* if preference == "retire" and terms_served < 5: raise
retirement_refused(preference, terms_served) ==
    preference = "retire" /\ terms_served < 5

never_injured(rec) == FALSE

\* the most recent term record has survival 'injured'
injured_in_current_term(rec) ==
    rec.terms # <<>> /\ rec.terms[Len(rec.terms)].survival = "injured"

reenlistment_eligibilities_one(career, continue_career) == 1

\* +1 eligibility (+2 for Scouts) when the career continues
reenlistment_eligibilities(career, continue_career) ==
    IF continue_career THEN (IF career = "Scouts" THEN 2 ELSE 1) ELSE 0

reenlistment_outcome_as_preferred(roll, target, preference) ==
    IF preference = "reenlist"
    THEN (IF roll >= target THEN "reenlisted" ELSE "discharged")
    ELSE IF preference = "discharge" THEN "discharged" ELSE "retired"

\* a roll of 12 is mandatory retention; otherwise the preference decides
reenlistment_outcome(roll, target, preference) ==
    IF roll = 12 THEN "retained"
    ELSE IF preference = "reenlist"
         THEN (IF roll >= target THEN "reenlisted" ELSE "discharged")
         ELSE IF preference = "discharge" THEN "discharged" ELSE "retired"

attempt_reenlistment(g, rec, preference) ==
    LET career == rec.career
        current_term == rec.terms[Len(rec.terms)]
        target == reenlistment_target(career)
        r == roll_2d6(g)
        roll == r.value
        outcome == reenlistment_outcome(roll, target, preference)
        status_text ==
            IF roll = 12 THEN "retained (mandatory)"
            ELSE IF preference = "reenlist"
                 THEN (IF roll >= target THEN "reenlisted" ELSE "military discharge")
                 ELSE outcome
        continue_career ==
            IF roll = 12 THEN TRUE
            ELSE IF preference = "reenlist" THEN roll >= target ELSE FALSE
        skill_eligibilities_granted ==
            reenlistment_eligibilities(career, continue_career)
        reenlistment_result ==
            [event_type |-> "reenlistment_attempt",
             career |-> career,
             age |-> rec.age,
             preference |-> preference,
             roll |-> roll,
             target |-> target,
             outcome |-> outcome,
             status_text |-> status_text,
             continue_career |-> continue_career,
             skill_eligibilities_granted |-> skill_eligibilities_granted]
        status_change_event ==
            [event_type |-> "status_change",
             career |-> career,
             from |-> "drafted",
             to |-> "enlisted",
             reason |-> "successful reenlistment"]
        \* roll and target None are written 0
        medical_result ==
            [event_type |-> "reenlistment_attempt",
             career |-> career,
             age |-> rec.age,
             preference |-> preference,
             roll |-> 0,
             target |-> 0,
             outcome |-> "medical_discharge",
             status_text |-> "medical discharge",
             continue_career |-> FALSE,
             skill_eligibilities_granted |-> 0,
             reason |-> "injured during survival check"]
    IN  IF career = ""
        THEN Raised(g, rec, "ValueError: Character record missing required field: 'career'")
        ELSE IF retirement_refused(preference, rec.terms_served)
        THEN Raised(g, rec, "ValueError: Character cannot retire")
        ELSE IF injured_in_current_term(rec)
        THEN Returned(g,
                 [rec EXCEPT
                    !.terms = SetLastTerm(@, [current_term EXCEPT !.reenlistment =
                                  [preference |-> preference, roll |-> 0, target |-> 0,
                                   outcome |-> "medical_discharge"]]),
                    !.career_history = Append(@, medical_result),
                    !.age = @ + 2,
                    !.terms_served = @ + 1])
        ELSE IF career \notin {Services[i] : i \in 1 .. Len(Services)}
        THEN Raised(g, rec, "AssertionError")
        ELSE IF roll # 12 /\ preference \notin Preferences
        THEN Raised(r.rng, rec, "UnboundLocalError")
        ELSE Returned(r.rng,
                 [rec EXCEPT
                    !.skill_eligibility = @ + skill_eligibilities_granted,
                    !.terms = IF @ # <<>>
                              THEN SetLastTerm(@, [current_term EXCEPT !.reenlistment =
                                       [preference |-> preference, roll |-> roll,
                                        target |-> target, outcome |-> outcome]])
                              ELSE @,
                    !.career_history =
                        IF rec.drafted /\ continue_career
                        THEN Append(Append(@, reenlistment_result), status_change_event)
                        ELSE Append(@, reenlistment_result),
                    !.drafted = IF @ /\ continue_career THEN FALSE ELSE @,
                    !.age = IF rec.terms # <<>> THEN @ + 4 ELSE @,
                    !.terms_served = IF rec.terms # <<>> THEN @ + 1 ELSE @])

get_available_skill_tables_all(rec) ==
    [personal |-> TRUE, service |-> TRUE, advanced |-> TRUE, education |-> TRUE]

\* The education skill table needs education 8+; the other three are open.
get_available_skill_tables(rec) ==
    [personal |-> TRUE,
     service |-> TRUE,
     advanced |-> TRUE,
     education |-> Get(rec.characteristics, "education") >= 8]

get_skill_eligibility_count(rec) == rec.skill_eligibility

TableNames == <<"personal", "service", "advanced", "education">>

skill_tables(career) ==
    CASE career = "Navy" ->
           [personal  |-> <<"+1 STR", "+1 DEX", "+1 END", "+1 INT", "+1 EDU", "+1 SOC">>,
            service   |-> <<"Ship's Boat", "Vacc Suit", "Forward Observer", "Gunnery", "Blade Combat", "Gun Combat">>,
            advanced  |-> <<"Vacc Suit", "Mechanical", "Electronic", "Engineering", "Gunnery", "Jack-of-all-Trades">>,
            education |-> <<"Medical", "Navigation", "Engineering", "Computer", "Pilot", "Admin">>]
      [] career = "Marines" ->
           [personal  |-> <<"+1 STR", "+1 DEX", "+1 END", "Gambling", "Brawling", "Blade Combat">>,
            service   |-> <<"Vehicle", "Vacc Suit", "Blade Combat", "Gun Combat", "Blade Combat", "Gun Combat">>,
            advanced  |-> <<"Vehicle", "Mechanical", "Electronic", "Tactics", "Blade Combat", "Gun Combat">>,
            education |-> <<"Medical", "Tactics", "Tactics", "Computer", "Leader", "Admin">>]
      [] career = "Army" ->
           [personal  |-> <<"+1 STR", "+1 DEX", "+1 END", "Gambling", "+1 EDU", "Brawling">>,
            service   |-> <<"Vehicle", "Air/Raft", "Gun Combat", "Forward Observer", "Blade Combat", "Gun Combat">>,
            advanced  |-> <<"Vehicle", "Mechanical", "Electronic", "Tactics", "Blade Combat", "Gun Combat">>,
            education |-> <<"Medical", "Tactics", "Tactics", "Computer", "Leader", "Admin">>]
      [] career = "Scouts" ->
           [personal  |-> <<"+1 STR", "+1 DEX", "+1 END", "+1 INT", "+1 EDU", "Gun Combat">>,
            service   |-> <<"Vehicle", "Vacc Suit", "Mechanical", "Navigation", "Electronics", "Jack-of-all-Trades">>,
            advanced  |-> <<"Vehicle", "Mechanical", "Electronic", "Jack-of-all-Trades", "Gunnery", "Medical">>,
            education |-> <<"Medical", "Navigation", "Engineering", "Computer", "Pilot", "Jack-of-all-Trades">>]
      [] career = "Merchants" ->
           [personal  |-> <<"+1 STR", "+1 DEX", "+1 END", "Blade Combat", "Bribery", "+1 INT">>,
            service   |-> <<"Vehicle", "Vacc Suit", "Jack-of-all-Trades", "Steward", "Electronics", "Gun Combat">>,
            advanced  |-> <<"Streetwise", "Mechanical", "Electronic", "Navigation", "Engineering", "Computer">>,
            education |-> <<"Medical", "Navigation", "Engineering", "Computer", "Pilot", "Admin">>]
      [] OTHER ->
           [personal  |-> <<"+1 STR", "+1 DEX", "+1 END", "Blade Combat", "Brawling", "+1 SOC">>,
            service   |-> <<"Vehicle", "Gambling", "Brawling", "Bribery", "Blade Combat", "Gun Combat">>,
            advanced  |-> <<"Streetwise", "Mechanical", "Electronic", "Gambling", "Brawling", "Forgery">>,
            education |-> <<"Medical", "Forgery", "Electronics", "Computer", "Streetwise", "Jack-of-all-Trades">>]

\* skill_name.startswith('+1') and the char_map lookup of its second word;
\* "" when the entry names a skill
char_map(skill_name) ==
    CASE skill_name = "+1 STR" -> "strength"
      [] skill_name = "+1 DEX" -> "dexterity"
      [] skill_name = "+1 END" -> "endurance"
      [] skill_name = "+1 INT" -> "intelligence"
      [] skill_name = "+1 EDU" -> "education"
      [] skill_name = "+1 SOC" -> "social"
      [] OTHER                 -> ""

AddSkill(skills, skill_name) ==
    IF skill_name \in DOMAIN skills
    THEN [skills EXCEPT ![skill_name] = @ + 1]
    ELSE skills @@ (skill_name :> 1)

NoEligibilityBelowZero(skill_eligibility) == skill_eligibility < 0

\* if skill_eligibility <= 0: raise
NoEligibility(skill_eligibility) == skill_eligibility <= 0

ConsumeNothing(skill_eligibility) == skill_eligibility

\* character_record["skill_eligibility"] = ... - 1
ConsumeEligibility(skill_eligibility) == skill_eligibility - 1

career_history_overwrite(history, event) == <<event>>

\* character_record["career_history"].append(event)
career_history_append(history, event) == Append(history, event)

\* table_choice "" stands for None (pick a table at random)
resolve_skill(g, rec, table_choice) ==
    LET career == rec.career
        available_tables == get_available_skill_tables(rec)
        valid_tables == SelectSeq(TableNames, LAMBDA t : available_tables[t])
        pick == choice(g, Len(valid_tables))
        table_name == IF table_choice = "" THEN valid_tables[pick.value] ELSE table_choice
        g1 == IF table_choice = "" THEN pick.rng ELSE g
        table == skill_tables(career)[table_name]
        r == randint(g1)
        roll == r.value
        skill_name == table[roll]
        characteristic == char_map(skill_name)
        is_increase == characteristic # ""
        found == is_increase /\ characteristic \in DOMAIN rec.characteristics
        old_value == rec.characteristics[characteristic]
        remaining == ConsumeEligibility(rec.skill_eligibility)
        base_event ==
            [event_type |-> "skill_resolution",
             career |-> career,
             education_available |-> available_tables["education"],
             table_choice_method |-> IF table_choice = "" THEN "random" ELSE "player",
             table_choice |-> table_name,
             roll |-> roll,
             skill_gained |-> skill_name,
             skill_eligibilities_consumed |-> 1,
             skill_eligibilities_remaining |-> remaining]
        skill_event ==
            IF found
            THEN base_event @@ [result_type |-> "characteristic_increase",
                                characteristic |-> characteristic,
                                old_value |-> old_value,
                                new_value |-> old_value + 1]
            ELSE IF is_increase
            THEN base_event @@ [result_type |-> "error"]
            ELSE base_event @@ [result_type |-> "skill_gain"]
        new_skills == IF is_increase THEN rec.skills ELSE AddSkill(rec.skills, skill_name)
        gained ==
            IF found
            THEN [table |-> table_name, result |-> skill_name,
                  type |-> "characteristic_increase", level |-> old_value + 1]
            ELSE [table |-> table_name, result |-> skill_name,
                  type |-> "skill_gain",
                  level |-> IF skill_name \in DOMAIN new_skills
                            THEN new_skills[skill_name] ELSE 0]
    IN  IF career = ""
        THEN Raised(g, rec, "ValueError: Character record missing required field: 'career'")
        ELSE IF NoEligibility(rec.skill_eligibility)
        THEN Raised(g, rec, "ValueError: Character has no skill eligibilities available")
        ELSE IF table_choice # "" /\ table_choice \notin DOMAIN available_tables
        THEN Raised(g, rec, "ValueError: Invalid table choice")
        ELSE IF table_choice # "" /\ ~available_tables[table_choice]
        THEN Raised(g, rec, "ValueError: Table not available")
        ELSE Returned(r.rng,
                 [rec EXCEPT
                    !.characteristics =
                        IF found THEN [@ EXCEPT ![characteristic] = @ + 1] ELSE @,
                    !.skills = new_skills,
                    !.skill_eligibility = remaining,
                    !.terms = IF @ # <<>>
                              THEN SetLastTerm(@, [@[Len(@)] EXCEPT !.skills_gained =
                                       Append(@, gained)])
                              ELSE @,
                    !.career_history = career_history_append(@, skill_event)])

total_rolls_terms_only(terms_served, rank) == terms_served

\* total_rolls = int(terms_served) + rank bonus
total_rolls_of(terms_served, rank) ==
    terms_served + (IF rank >= 1 /\ rank <= 2 THEN 1
                    ELSE IF rank >= 3 /\ rank <= 4 THEN 2
                    ELSE IF rank >= 5 /\ rank <= 6 THEN 3
                    ELSE 0)

cash_table(key) ==
    CASE key = "Navy"     -> <<1000, 5000, 5000, 10000, 20000, 50000, 50000>>
      [] key = "Marines"  -> <<2000, 5000, 5000, 10000, 20000, 30000, 40000>>
      [] key = "Army"     -> <<2000, 5000, 10000, 10000, 10000, 20000, 30000>>
      [] key = "Scouts"   -> <<20000, 20000, 30000, 30000, 50000, 50000, 50000>>
      [] key = "Merchant" -> <<1000, 5000, 10000, 20000, 20000, 40000, 40000>>
      [] OTHER            -> <<1000, 5000, 10000, 10000, 10000, 50000, 100000>>

benefit_table(key) ==
    CASE key = "Navy"     -> <<"Low Psg", "INT +1", "EDU +2", "Blade", "Travellers", "High Psg", "SOC +2">>
      [] key = "Marines"  -> <<"Low Psg", "INT +2", "EDU +1", "Blade", "Traveller", "High Psg", "SOC +2">>
      [] key = "Army"     -> <<"Low Psg", "INT +1", "EDU +2", "Gun", "High Psg", "Mid Psg", "SOC +1">>
      [] key = "Scouts"   -> <<"Low Psg", "INT +2", "EDU +2", "Blade", "Gun", "Scout Ship">>
      [] key = "Merchant" -> <<"Low Psg", "INT +1", "EDU +1", "Gun", "Blade", "Low Psg", "Free Trader">>
      [] OTHER            -> <<"Low Psg", "INT +1", "EDU +1", "Gun", "High Psg", "-">>

TableKeys == {"Navy", "Marines", "Army", "Scouts", "Merchant", "Other"}

\* cash_table.get(current_career, cash_table['Other'])
career_table_key(current_career) ==
    IF current_career \in TableKeys THEN current_career ELSE "Other"

\* the characteristic and the amount of a benefit "INT +n", "EDU +n", "SOC +n"
benefit_boost(benefit) ==
    CASE benefit = "INT +1" -> <<"intelligence", 1>>
      [] benefit = "INT +2" -> <<"intelligence", 2>>
      [] benefit = "EDU +1" -> <<"education", 1>>
      [] benefit = "EDU +2" -> <<"education", 2>>
      [] benefit = "SOC +1" -> <<"social", 1>>
      [] benefit = "SOC +2" -> <<"social", 2>>
      [] OTHER              -> <<"", 0>>

Min(a, b) == IF a < b THEN a ELSE b
Max(a, b) == IF a > b THEN a ELSE b

RECURSIVE CashRolls(_, _, _, _, _, _)
\* for i in range(cash_rolls): acc carries the generator, the history, the
\* cash total and the roll details
CashRolls(n, i, career, rank_bonus, gambling_skill, acc) ==
    IF i > n THEN acc
    ELSE LET r == randint(acc.rng)
             total_roll == Min(7, r.value + rank_bonus + gambling_skill)
             table == cash_table(career_table_key(career))
             amount == IF total_roll \in DOMAIN table THEN table[total_roll] ELSE 0
             event == [event_type |-> "mustering_out_cash_roll",
                       roll |-> r.value,
                       modifier |-> rank_bonus + gambling_skill,
                       total_roll |-> total_roll,
                       amount |-> amount,
                       career |-> career]
         IN  CashRolls(n, i + 1, career, rank_bonus, gambling_skill,
                 [acc EXCEPT
                    !.rng = r.rng,
                    !.cash = @ + amount,
                    !.cash_roll_details = Append(@, [roll_number |-> i, base_roll |-> r.value,
                                                     total_roll |-> total_roll,
                                                     amount |-> amount]),
                    !.history = Append(@, event)])

RECURSIVE BenefitRolls(_, _, _, _, _)
\* for i in range(benefit_rolls): acc also carries the characteristics, the
\* items and the boosts; a boost of a characteristic the record lacks raises
BenefitRolls(n, i, career, rank_bonus, acc) ==
    IF i > n \/ acc.raised # "none" THEN acc
    ELSE LET r == randint(acc.rng)
             total_roll == Min(7, r.value + rank_bonus)
             table == benefit_table(career_table_key(career))
             benefit == IF total_roll \in DOMAIN table THEN table[total_roll] ELSE "Low Psg"
             boost == benefit_boost(benefit)
             is_boost == boost[1] # ""
             old_value == acc.characteristics[boost[1]]
             boost_event == [event_type |-> "mustering_out_characteristic_boost",
                             characteristic |-> boost[1],
                             boost |-> boost[2],
                             old_value |-> old_value,
                             new_value |-> old_value + boost[2],
                             source |-> "mustering_out_benefit"]
             roll_event == [event_type |-> "mustering_out_benefit_roll",
                            roll |-> r.value,
                            modifier |-> rank_bonus,
                            total_roll |-> total_roll,
                            benefit |-> benefit,
                            career |-> career]
             detail == [roll_number |-> i, base_roll |-> r.value,
                        total_roll |-> total_roll, benefit |-> benefit]
         IN  IF is_boost /\ boost[1] \notin DOMAIN acc.characteristics
             THEN [acc EXCEPT !.rng = r.rng,
                              !.benefit_roll_details = Append(@, detail),
                              !.raised = "KeyError"]
             ELSE BenefitRolls(n, i + 1, career, rank_bonus,
                 [acc EXCEPT
                    !.rng = r.rng,
                    !.characteristics =
                        IF is_boost THEN [@ EXCEPT ![boost[1]] = @ + boost[2]] ELSE @,
                    !.boosts = IF is_boost
                               THEN (IF boost[1] \in DOMAIN @
                                     THEN [@ EXCEPT ![boost[1]] = @ + boost[2]]
                                     ELSE @ @@ (boost[1] :> boost[2]))
                               ELSE @,
                    !.items = IF ~is_boost /\ benefit # "-" THEN Append(@, benefit) ELSE @,
                    !.benefit_roll_details = Append(@, detail),
                    !.history = IF is_boost
                                THEN Append(Append(@, boost_event), roll_event)
                                ELSE Append(@, roll_event)])

\* cash_rolls <<>> stands for None, <<n>> for the number n
perform_mustering_out(g, rec, cash_rolls) ==
    LET current_career == rec.career
        rank == rec.rank
        gambling_skill == IF "Gambling" \in DOMAIN rec.skills THEN rec.skills["Gambling"] ELSE 0
        total_rolls == total_rolls_of(rec.terms_served, rank)
        n_cash == IF cash_rolls = <<>> THEN Min(3, total_rolls)
                  ELSE Max(0, Min(cash_rolls[1], Min(3, total_rolls)))
        benefit_rolls == total_rolls - n_cash
        rank_bonus == IF rank >= 5 THEN 1 ELSE 0
        start == [rng |-> g,
                  history |-> rec.career_history,
                  characteristics |-> rec.characteristics,
                  cash |-> 0,
                  items |-> <<>>,
                  boosts |-> [c \in {} |-> 0],
                  cash_roll_details |-> <<>>,
                  benefit_roll_details |-> <<>>,
                  raised |-> "none"]
        cash == CashRolls(n_cash, 1, current_career, rank_bonus, gambling_skill, start)
        done == BenefitRolls(benefit_rolls, 1, current_career, rank_bonus, cash)
        summary == [event_type |-> "mustering_out_summary",
                    career |-> current_career,
                    total_rolls |-> total_rolls,
                    cash_rolls |-> n_cash,
                    benefit_rolls |-> benefit_rolls,
                    total_cash |-> done.cash,
                    items |-> done.items,
                    characteristic_boosts |-> done.boosts,
                    rank_bonus |-> rank_bonus,
                    gambling_skill |-> gambling_skill]
    IN  IF current_career = ""
        THEN Raised(g, rec, "ValueError: Character must have a current career to muster out")
        ELSE IF done.raised # "none"
        THEN Raised(done.rng,
                    [rec EXCEPT !.career_history = done.history,
                                !.characteristics = done.characteristics],
                    done.raised)
        ELSE Returned(done.rng,
                 [rec EXCEPT
                    !.characteristics = done.characteristics,
                    !.mustering_out_benefits =
                        [done |-> TRUE,
                         cash |-> done.cash,
                         items |-> done.items,
                         characteristic_boosts |-> done.boosts,
                         cash_roll_details |-> done.cash_roll_details,
                         benefit_roll_details |-> done.benefit_roll_details],
                    !.career_history = Append(done.history, summary)])

\* the fields of the report that depend on the record; the two tables are
\* those of career_table_key(current_career)
calculate_mustering_out_info(rec) ==
    IF rec.career = ""
    THEN [raised |-> "ValueError: Character must have a current career to calculate mustering out",
          total_rolls |-> 0, max_cash_rolls |-> 0, rank_bonus |-> 0]
    ELSE [raised |-> "none",
          total_rolls |-> total_rolls_of(rec.terms_served, rec.rank),
          max_cash_rolls |-> Min(3, total_rolls_of(rec.terms_served, rec.rank)),
          rank_bonus |-> IF rec.rank >= 5 THEN 1 ELSE 0]

----------------------------------------------------------------------------
(* Stream specification: draws, checkpoints, corrupted checkpoints and     *)
(* derived characteristic draws on one generator.                          *)

CallerPos == Len(consumed)

StreamInit ==
    \E seed \in Seeds :
        /\ character = [create_character_record EXCEPT !.seed = seed]
        /\ rng = set_seed(seed)
        /\ file = <<>>
        /\ raised = "none"
        /\ consumed = <<>>
        /\ resumed = get_random_generator([create_character_record EXCEPT !.seed = seed])
        /\ generated = {}
        /\ cached = TRUE

Draw ==
    /\ rng.pos < MaxDraws
    /\ rng' = randint(rng).rng
    /\ consumed' = Append(consumed, [op |-> "draw", first |-> rng.pos, next |-> rng.pos + 1])
    /\ generated' = {}
    /\ UNCHANGED <<character, file, raised, resumed, cached>>

Checkpoint ==
    /\ character' = save_random_state(character, rng)
    /\ resumed' = get_random_generator(character')
    /\ UNCHANGED <<rng, file, raised, consumed, generated, cached>>

Corrupt(kind) ==
    /\ character' = [character EXCEPT
                        !.random_state = [kind |-> kind, seed |-> rng.seed, pos |-> rng.pos]]
    /\ resumed' = get_random_generator(character')
    /\ UNCHANGED <<rng, file, raised, consumed, generated, cached>>

GenerateCharacteristic(characteristic) ==
    LET r == generate_characteristic(rng, characteristic)
    IN  /\ rng' = r.rng
        /\ generated' = generated \cup {[name |-> characteristic, value |-> r.value]}
        /\ UNCHANGED <<character, file, raised, consumed, resumed, cached>>

StreamNext ==
    \/ Draw
    \/ Checkpoint
    \/ \E kind \in MalformedKinds : Corrupt(kind)
    \/ \E characteristic \in CharNames : GenerateCharacteristic(characteristic)

SpecStream == StreamInit /\ [][StreamNext]_vars

----------------------------------------------------------------------------
(* Engine specification: a caller holding one generator and one record     *)
(* applies the engine operations in any order, as the tests and the demo   *)
(* do after setting the characteristics.                                   *)

MaxHistory == 4
MaxPos == 8

\* the characteristics test_commission_manual.py sets
TestProfile ==
    [strength |-> 8, dexterity |-> 8, endurance |-> 8,
     intelligence |-> 8, education |-> 8, social |-> 10]

WeakProfile == [c \in CharNames |-> 5]

Profiles == {TestProfile, WeakProfile}

EnlistChoices == {"Army", "Scouts", "Merchants"}
TableChoices == {"", "personal", "psionics"}
PreferenceChoices == {"reenlist", "discharge", "retire", "desert"}
CashRollChoices == {<<>>, <<1>>}

Init ==
    \E seed \in Seeds, profile \in Profiles :
        /\ character = [create_character_record EXCEPT
                            !.seed = seed, !.characteristics = profile]
        /\ rng = set_seed(seed)
        /\ file = <<>>
        /\ raised = "none"
        /\ consumed = <<>>
        /\ resumed = get_random_generator([create_character_record EXCEPT !.seed = seed])
        /\ generated = {}
        /\ cached = TRUE

\* One engine call by the caller: the generator and the record are the
\* caller's objects, which the operation updates in place.
ApplyWithin(bound, positions, result) ==
    /\ Len(character.career_history) < bound
    /\ rng.pos < positions
    /\ rng' = result.rng
    /\ character' = result.rec
    /\ raised' = result.raised
    /\ UNCHANGED <<file, consumed, resumed, generated, cached>>

Apply(result) == ApplyWithin(MaxHistory, MaxPos, result)

Enlist(service) == Apply(attempt_enlistment(rng, character, service))

Survival(death_rule_enabled) == Apply(check_survival(rng, character, death_rule_enabled))

Commission == Apply(check_commission(rng, character))

Promotion == Apply(check_promotion(rng, character))

Skill(table_choice) == Apply(resolve_skill(rng, character, table_choice))

Reenlist(preference) == Apply(attempt_reenlistment(rng, character, preference))

MusterOut(cash_rolls) == Apply(perform_mustering_out(rng, character, cash_rolls))

Next ==
    \/ \E service \in EnlistChoices : Enlist(service)
    \/ \E death_rule_enabled \in BOOLEAN : Survival(death_rule_enabled)
    \/ Commission
    \/ Promotion
    \/ \E table_choice \in TableChoices : Skill(table_choice)
    \/ \E preference \in PreferenceChoices : Reenlist(preference)
    \/ \E cash_rolls \in CashRollChoices : MusterOut(cash_rolls)

Spec == Init /\ [][Next]_vars

----------------------------------------------------------------------------
(* Helpers of the claims about the record *)

History == character.career_history

Last(seq) == seq[Len(seq)]

Granted(event) ==
    IF "skill_eligibilities_granted" \in DOMAIN event
    THEN event.skill_eligibilities_granted ELSE 0

RECURSIVE SumGranted(_)
SumGranted(history) ==
    IF history = <<>> THEN 0 ELSE Granted(Head(history)) + SumGranted(Tail(history))

CountEvents(history, event_type) ==
    Cardinality({i \in 1 .. Len(history) : history[i].event_type = event_type})

CommissionSuccesses(history) ==
    {i \in 1 .. Len(history) :
        history[i].event_type = "commission_check" /\ history[i].success}

\* the step appended exactly one event, of the given type, to career_history
Appended(event_type) ==
    /\ Len(character'.career_history) = Len(character.career_history) + 1
    /\ Last(character'.career_history).event_type = event_type

\* C6: skill_eligibility is the sum of the skill_eligibilities_granted
\* recorded in career_history minus the number of skill_resolution events.
C6_EligibilityBalance ==
    character.skill_eligibility =
        SumGranted(History) - CountEvents(History, "skill_resolution")

C6_Witness ==
    /\ CountEvents(History, "skill_resolution") >= 1
    /\ CommissionSuccesses(History) # {}
    /\ SumGranted(History) >= 3
    /\ character.skill_eligibility >= 1

\* C7: skill_eligibility is never negative.
C7_EligibilityNonNegative == character.skill_eligibility >= 0

C7_Witness ==
    /\ character.skill_eligibility = 0
    /\ CountEvents(History, "skill_resolution") >= 2
    /\ raised = "ValueError: Character has no skill eligibilities available"

\* C8: commissioned never returns to false, so it turns true at most once;
\* once it is true a commission check appends a 'not applicable' event with
\* reason 'Already commissioned' and leaves the stream where it was.
C8_CommissionOnce ==
    [][/\ character.commissioned => character'.commissioned
       /\ (character.commissioned /\ Appended("commission_check")) =>
            /\ Last(character'.career_history).outcome = "not applicable"
            /\ ~Last(character'.career_history).applicable
            /\ Last(character'.career_history).reason = "Already commissioned"
            /\ "roll" \notin DOMAIN Last(character'.career_history)
            /\ rng' = rng
            /\ character'.rank = character.rank]_vars

C8_Witness ==
    /\ character.commissioned
    /\ Cardinality(CommissionSuccesses(History)) = 1
    /\ Last(History).event_type = "commission_check"
    /\ ~Last(History).applicable
    /\ Last(History).reason = "Already commissioned"
    /\ character.career \in {"Scouts", "Others"}

\* C9: age, terms_served and rank never decrease.
C9_Monotone ==
    [][/\ character'.age >= character.age
       /\ character'.terms_served >= character.terms_served
       /\ character'.rank >= character.rank]_vars

C9_Witness ==
    /\ character.age >= 22
    /\ character.terms_served >= 1
    /\ character.rank >= 1

\* C13 as stated: once a career is set its value changes only through a
\* later successful enlistment.
C13_CareerChangesOnlyOnSuccess ==
    [][(character.career # "" /\ character'.career # character.career) =>
            /\ Appended("enlistment_attempt")
            /\ Last(character'.career_history).success]_vars

\* C13 amended: once a career is set its value changes only through a later
\* enlistment attempt, to the chosen service when the roll succeeds and to
\* the drafted service (position 1d6 of the service list) when it fails;
\* survival, commission, promotion, skill resolution, reenlistment and
\* mustering-out leave career unchanged.
C13_CareerChangesOnlyOnEnlistment ==
    [][IF Appended("enlistment_attempt")
       THEN LET e == Last(character'.career_history)
                d6 == randint(roll_2d6(rng).rng).value
            IN  character'.career = IF e.success THEN e.service ELSE Services[d6]
       ELSE character'.career = character.career]_vars

C13_Witness ==
    /\ Len(History) = 4
    /\ History[1].event_type = "enlistment_attempt"
    /\ History[2].event_type = "survival_check"
    /\ History[3].event_type = "enlistment_attempt"
    /\ ~History[3].success
    /\ History[3].assigned_service # History[1].assigned_service
    /\ History[4].event_type \in {"reenlistment_attempt", "skill_resolution"}
    /\ character.career = History[3].assigned_service

\* C32: career_history is append-only: in every step of an engine
\* operation the history before the step is an unchanged prefix of the
\* history after it, and a step whose operation returned without raising
\* appended at least one event.
C32_AppendOnly ==
    [][/\ Len(character'.career_history) >= Len(character.career_history)
       /\ SubSeq(character'.career_history, 1, Len(character.career_history))
              = character.career_history
       /\ ((raised' = "none") =>
              Len(character'.career_history) > Len(character.career_history))]_vars

\* a skill resolution appended its event behind three earlier events
C32_Witness ==
    /\ raised = "none"
    /\ Len(History) = 4
    /\ History[1].event_type = "enlistment_attempt"
    /\ History[2].event_type = "survival_check"
    /\ History[4].event_type = "skill_resolution"

\* C35: check_survival leaves age and terms_served unchanged whatever the
\* outcome (survived, injured, died), and a step that changes age or
\* terms_served is a step of attempt_reenlistment.
C35_SurvivalKeepsAge ==
    [][/\ (/\ raised' # "none" \/ Appended("survival_check")
           /\ \E death_rule_enabled \in BOOLEAN : Survival(death_rule_enabled)) =>
              /\ character'.age = character.age
              /\ character'.terms_served = character.terms_served
       /\ (character'.age # character.age
              \/ character'.terms_served # character.terms_served) =>
              \E preference \in PreferenceChoices : Reenlist(preference)]_vars

\* a character died in the survival check of the second term, one term
\* served and aged 22
C35_Witness ==
    /\ Len(History) = 4
    /\ Last(History).event_type = "survival_check"
    /\ Last(History).outcome = "died"
    /\ History[2].event_type = "survival_check"
    /\ character.terms_served = 1
    /\ character.age = 22

\* C38: at most one promotion succeeds per term: between any two
\* successful promotion checks of the history there is a survival check,
\* so rank rises at most once between two consecutive survival checks and
\* at most once before the first.
C38_OnePromotionPerTerm ==
    \A i, j \in DOMAIN History :
        (/\ i < j
         /\ History[i].event_type = "promotion_check" /\ History[i].success
         /\ History[j].event_type = "promotion_check" /\ History[j].success) =>
            \E k \in (i + 1) .. (j - 1) : History[k].event_type = "survival_check"

\* C14: check_survival draws exactly one 2d6, records 'survived' exactly
\* when roll + career bonus >= the career's survival target, otherwise
\* 'died' with the death rule enabled and 'injured' without it, and appends
\* exactly one term record carrying that outcome and one survival_check event.
C14_SurvivalRule ==
    [][\A death_rule_enabled \in BOOLEAN :
        (/\ raised' # "none" \/ Appended("survival_check")
         /\ character.career # ""
         /\ Survival(death_rule_enabled)) =>
            LET e == Last(character'.career_history)
                roll == roll_2d6(rng).value
                bonus == SumBonuses(character.characteristics,
                                    survival_bonuses(character.career))
                pass == roll + bonus >= survival_target(character.career)
            IN  /\ rng' = [rng EXCEPT !.pos = @ + 2]
                /\ raised' = "none"
                /\ character'.career_history = Append(character.career_history, e)
                /\ e.event_type = "survival_check"
                /\ e.roll = roll
                /\ e.success <=> pass
                /\ e.outcome = IF pass THEN "survived"
                               ELSE IF death_rule_enabled THEN "died" ELSE "injured"
                /\ Len(character'.terms) = Len(character.terms) + 1
                /\ SubSeq(character'.terms, 1, Len(character.terms)) = character.terms
                /\ Last(character'.terms).survival = e.outcome]_vars

C14_Witness ==
    /\ Len(History) = 4
    /\ History[2].event_type = "survival_check" /\ History[2].outcome = "survived"
    /\ History[4].event_type = "survival_check" /\ History[4].outcome = "died"
    /\ Len(character.terms) = 2
    /\ character.terms[1].survival = "survived"
    /\ character.terms[2].survival = "died"

----------------------------------------------------------------------------
(* Skill specification: enlistments, survival checks and skill            *)
(* resolutions against every table request, for characters on both sides  *)
(* of the education threshold                                             *)

MaxSkillHistory == 4
MaxSkillPos == 10

EducationSeven == [TestProfile EXCEPT !.education = 7]

SkillProfiles == {TestProfile, WeakProfile, EducationSeven, NoCharacteristics}
SkillServices == {"Navy", "Scouts"}
SkillTableChoices == {"", "personal", "service", "advanced", "education", "psionics"}

SkillInit ==
    \E seed \in Seeds, profile \in SkillProfiles :
        /\ character = [create_character_record EXCEPT
                            !.seed = seed, !.characteristics = profile]
        /\ rng = set_seed(seed)
        /\ file = <<>>
        /\ raised = "none"
        /\ consumed = <<>>
        /\ resumed = get_random_generator([create_character_record EXCEPT !.seed = seed])
        /\ generated = {}
        /\ cached = TRUE

SkillEnlist(service) ==
    ApplyWithin(MaxSkillHistory, MaxSkillPos, attempt_enlistment(rng, character, service))

SkillSurvival ==
    ApplyWithin(MaxSkillHistory, MaxSkillPos, check_survival(rng, character, FALSE))

ResolveSkill(table_choice) ==
    ApplyWithin(MaxSkillHistory, MaxSkillPos, resolve_skill(rng, character, table_choice))

SkillNext ==
    \/ \E service \in SkillServices : SkillEnlist(service)
    \/ SkillSurvival
    \/ \E table_choice \in SkillTableChoices : ResolveSkill(table_choice)

SpecSkill == SkillInit /\ [][SkillNext]_vars

\* C19: resolve_skill raises an error and leaves both the record and the
\* stream unchanged whenever skill_eligibility <= 0, whenever the requested
\* table is not one of personal, service, advanced, education, and whenever
\* 'education' is requested with education < 8; when no table is requested,
\* the random pick is never the education table unless education >= 8.
C19_SkillRefusals ==
    [][\A table_choice \in SkillTableChoices :
         LET education == Get(character.characteristics, "education")
             requested == table_choice # ""
             refused ==
                 \/ character.skill_eligibility <= 0
                 \/ requested /\ table_choice \notin
                        {"personal", "service", "advanced", "education"}
                 \/ table_choice = "education" /\ education < 8
             e == Last(character'.career_history)
         IN  ResolveSkill(table_choice) =>
               /\ refused => /\ raised' # "none"
                             /\ character' = character
                             /\ rng' = rng
               /\ (~requested /\ raised' = "none") =>
                      /\ e.event_type = "skill_resolution"
                      /\ e.table_choice_method = "random"
                      /\ e.table_choice = "education" => education >= 8]_vars

C19_Witness ==
    /\ raised = "ValueError: Table not available"
    /\ character.skill_eligibility > 0
    /\ Get(character.characteristics, "education") < 8
    /\ Len(History) >= 2
    /\ Last(History).event_type = "skill_resolution"
    /\ Last(History).table_choice_method = "random"
    /\ Last(History).table_choice # "education"

\* C20: every successful resolve_skill consumes exactly one skill eligibility
\* and applies exactly one table entry of the character's career: an entry
\* '+1 XXX' raises the named characteristic by exactly 1 and leaves skills
\* unchanged; any other entry raises that skill's level by exactly 1,
\* starting at 1 for a new skill, and leaves characteristics unchanged; so
\* every skill level in the record is >= 1.
C20_SkillApplied ==
    [][\A table_choice \in SkillTableChoices :
         LET e == Last(character'.career_history)
             entry == e.skill_gained
             table == skill_tables(character.career)[e.table_choice]
             plus == entry \in {"+1 STR", "+1 DEX", "+1 END",
                                "+1 INT", "+1 EDU", "+1 SOC"}
             named == CASE entry = "+1 STR" -> "strength"
                        [] entry = "+1 DEX" -> "dexterity"
                        [] entry = "+1 END" -> "endurance"
                        [] entry = "+1 INT" -> "intelligence"
                        [] entry = "+1 EDU" -> "education"
                        [] OTHER -> "social"
             c == character.characteristics
             c2 == character'.characteristics
             s == character.skills
             s2 == character'.skills
         IN  (ResolveSkill(table_choice) /\ raised' = "none") =>
               /\ character'.career_history = Append(character.career_history, e)
               /\ e.event_type = "skill_resolution"
               /\ character'.skill_eligibility = character.skill_eligibility - 1
               /\ \E i \in 1 .. Len(table) : table[i] = entry
               /\ plus => /\ named \in DOMAIN c2
                          /\ c2[named] = Get(c, named) + 1
                          /\ \A n \in DOMAIN c2 \ {named} :
                                 n \in DOMAIN c /\ c2[n] = c[n]
                          /\ s2 = s
               /\ ~plus => /\ entry \in DOMAIN s2
                           /\ s2[entry] = IF entry \in DOMAIN s THEN s[entry] + 1 ELSE 1
                           /\ \A n \in DOMAIN s2 \ {entry} :
                                  n \in DOMAIN s /\ s2[n] = s[n]
                           /\ c2 = c
               /\ \A n \in DOMAIN s2 : s2[n] >= 1]_vars

----------------------------------------------------------------------------
(* Enlistment specification: a caller whose generator has made any number  *)
(* of draws attempts enlistment, in any service name, and the commission   *)
(* and promotion checks of the first term, for a record with any of        *)
(* several characteristic sets, up to MaxEnlistHistory operations.         *)

NumEnlistSeeds == 3
MaxSkip == 6
MaxEnlistHistory == 3
MaxEnlistPos == 12

AllTen == [c \in CharNames |-> 10]

EnlistProfiles == {TestProfile, WeakProfile, AllTen, NoCharacteristics}

\* the six services and a name that is none of them
ServiceNames == {Services[i] : i \in 1 .. Len(Services)} \cup {"Pirates"}

EnlistSeeds == 0 .. (NumEnlistSeeds - 1)

EnlistInit ==
    \E seed \in EnlistSeeds, profile \in EnlistProfiles :
        /\ character = [create_character_record EXCEPT
                            !.seed = seed, !.characteristics = profile]
        /\ rng = set_seed(seed)
        /\ file = <<>>
        /\ raised = "none"
        /\ consumed = <<>>
        /\ resumed = get_random_generator([create_character_record EXCEPT !.seed = seed])
        /\ generated = {}
        /\ cached = TRUE

\* a draw the caller made before the enlistment
Skip ==
    /\ character.career_history = <<>>
    /\ rng.pos < MaxSkip
    /\ rng' = randint(rng).rng
    /\ UNCHANGED <<character, file, raised, consumed, resumed, generated, cached>>

EnlistAny(service) ==
    ApplyWithin(MaxEnlistHistory, MaxEnlistPos, attempt_enlistment(rng, character, service))

FirstCommission ==
    ApplyWithin(MaxEnlistHistory, MaxEnlistPos, check_commission(rng, character))

FirstPromotion ==
    ApplyWithin(MaxEnlistHistory, MaxEnlistPos, check_promotion(rng, character))

EnlistNext ==
    \/ Skip
    \/ \E service \in ServiceNames : EnlistAny(service)
    \/ FirstCommission
    \/ FirstPromotion

SpecEnlist == EnlistInit /\ [][EnlistNext]_vars

\* C11: an enlistment attempt in service S records success = true and sets
\* career = S exactly when roll + modifier >= target(S), with the targets
\* Navy 8, Marines 9, Army 5, Scouts 7, Merchants 7, Others 3 and the
\* modifier the sum of S's bonuses whose threshold is met; with all
\* characteristics 10 and S = Army the modifier is 3 and every roll succeeds.
C11_EnlistmentRule ==
    [][Appended("enlistment_attempt") =>
        LET e == Last(character'.career_history)
            S == e.service
            roll == roll_2d6(rng).value
            modifier == SumBonuses(character.characteristics, enlistment_bonuses(S))
            target == CASE S = "Navy" -> 8 [] S = "Marines" -> 9 [] S = "Army" -> 5
                        [] S = "Scouts" -> 7 [] S = "Merchants" -> 7 [] OTHER -> 3
        IN  S \in {"Navy", "Marines", "Army", "Scouts", "Merchants", "Others"} =>
              /\ e.roll = roll /\ e.modifier = modifier /\ e.target = target
              /\ (e.success /\ character'.career = S) <=> (roll + modifier >= target)
              /\ e.success <=> (roll + modifier >= target)
              /\ (character.characteristics = AllTen /\ S = "Army") =>
                    (modifier = 3 /\ e.success)]_vars

C11_Witness ==
    /\ Len(History) = 2
    /\ ~History[1].success /\ History[1].total = History[1].target - 1
    /\ History[2].success /\ History[2].total = History[2].target
    /\ History[2].service \in {"Navy", "Marines"}
    /\ character.career = History[2].service

\* C12: after an enlistment attempt drafted is true if the roll failed, the
\* career then being the service at position 1d6 of Navy, Marines, Army,
\* Scouts, Merchants, Others, and drafted is false if the roll succeeded.
C12_DraftedFollowsRoll ==
    [][Appended("enlistment_attempt") =>
        LET e == Last(character'.career_history)
            d6 == randint(roll_2d6(rng).rng).value
        IN  /\ ~e.success =>
                /\ character'.drafted
                /\ character'.career =
                     <<"Navy", "Marines", "Army", "Scouts", "Merchants", "Others">>[d6]
            /\ e.success => ~character'.drafted]_vars

----------------------------------------------------------------------------
(* Reenlistment specification: a caller whose generator has made any       *)
(* number of draws enlists, checks survival with or without the death rule *)
(* and attempts reenlistment with any preference string, up to             *)
(* MaxReenlistHistory events.                                              *)

MaxReenlistHistory == 4
MaxReenlistPos == 12

ReenlistServices == {"Army", "Scouts"}
ReenlistPreferences == {"reenlist", "discharge", "retire", "desert"}

ReenlistInit ==
    \E seed \in EnlistSeeds, profile \in Profiles :
        /\ character = [create_character_record EXCEPT
                            !.seed = seed, !.characteristics = profile]
        /\ rng = set_seed(seed)
        /\ file = <<>>
        /\ raised = "none"
        /\ consumed = <<>>
        /\ resumed = get_random_generator([create_character_record EXCEPT !.seed = seed])
        /\ generated = {}
        /\ cached = TRUE

TermEnlist(service) ==
    ApplyWithin(MaxReenlistHistory, MaxReenlistPos,
                attempt_enlistment(rng, character, service))

TermSurvival(death_rule_enabled) ==
    ApplyWithin(MaxReenlistHistory, MaxReenlistPos,
                check_survival(rng, character, death_rule_enabled))

TermReenlist(preference) ==
    ApplyWithin(MaxReenlistHistory, MaxReenlistPos,
                attempt_reenlistment(rng, character, preference))

ReenlistNext ==
    \/ Skip
    \/ \E service \in ReenlistServices : TermEnlist(service)
    \/ \E death_rule_enabled \in BOOLEAN : TermSurvival(death_rule_enabled)
    \/ \E preference \in ReenlistPreferences : TermReenlist(preference)

SpecReenlist == ReenlistInit /\ [][ReenlistNext]_vars

LastTermInjured ==
    /\ character.terms # <<>>
    /\ character.terms[Len(character.terms)].survival = "injured"

\* C22: attempt_reenlistment with preference 'retire' and terms_served < 5
\* raises an error before any roll is made, leaving the record and the
\* stream unchanged; this holds also when the last term was injured.
C22_EarlyRetirementRefused ==
    [][(/\ character.terms_served < 5
        /\ TermReenlist("retire")) =>
            /\ raised' # "none"
            /\ character' = character
            /\ rng' = rng]_vars

C22_Witness ==
    /\ raised = "ValueError: Character cannot retire"
    /\ LastTermInjured
    /\ character.terms_served < 5
    /\ Last(History).event_type = "survival_check"

\* C23: attempt_reenlistment called with a preference that is not one of
\* reenlist, discharge, retire raises a validation error immediately, for
\* every roll value, leaving the record unmutated and consuming no roll.
C23_InvalidPreferenceRefused ==
    [][\A preference \in ReenlistPreferences \ {"reenlist", "discharge", "retire"} :
         TermReenlist(preference) =>
            /\ raised' # "none"
            /\ character' = character
            /\ rng' = rng]_vars

\* C24: when the most recent term record has survival 'injured',
\* attempt_reenlistment yields outcome medical_discharge for every preference
\* it accepts: no dice are drawn, continue_career is false, no skill
\* eligibility is granted, drafted is unchanged, age rises by exactly 2 and
\* terms_served by exactly 1.
C24_MedicalDischarge ==
    [][\A preference \in ReenlistPreferences :
         LET e == Last(character'.career_history)
         IN  (/\ LastTermInjured
              /\ raised' = "none"
              /\ TermReenlist(preference)) =>
                /\ character'.career_history = Append(character.career_history, e)
                /\ e.event_type = "reenlistment_attempt"
                /\ e.outcome = "medical_discharge"
                /\ e.preference = preference
                /\ ~e.continue_career
                /\ e.skill_eligibilities_granted = 0
                /\ rng' = rng
                /\ character'.skill_eligibility = character.skill_eligibility
                /\ character'.drafted = character.drafted
                /\ character'.age = character.age + 2
                /\ character'.terms_served = character.terms_served + 1]_vars

C24_Witness ==
    /\ Len(History) = 3
    /\ History[1].event_type = "enlistment_attempt"
    /\ History[1].outcome = "drafted"
    /\ History[2].event_type = "survival_check"
    /\ History[2].outcome = "injured"
    /\ History[3].event_type = "reenlistment_attempt"
    /\ History[3].outcome = "medical_discharge"
    /\ History[3].preference = "reenlist"
    /\ character.drafted
    /\ character.age = 20
    /\ character.terms_served = 1
    /\ character.skill_eligibility = 2
    /\ raised = "none"

\* the reenlistment event a reenlistment step appended: the last event, or
\* the one before the status_change that follows it
ReenlistmentEvent(history) ==
    IF Last(history).event_type = "status_change"
    THEN history[Len(history) - 1]
    ELSE Last(history)

\* C36: after every reenlistment that returns, the last event of
\* career_history is the reenlistment_attempt event of that operation, with
\* its outcome, status_text and continue_career, also when a drafted
\* character is continued.
C36_LastEventIsReenlistment ==
    [][(/\ raised' = "none"
        /\ \E preference \in ReenlistPreferences : TermReenlist(preference)) =>
           /\ Last(character'.career_history).event_type = "reenlistment_attempt"
           /\ {"outcome", "status_text", "continue_career"} \subseteq
                  DOMAIN Last(character'.career_history)]_vars

\* C39: in every reachable state terms_served is at most the number of
\* term records, the survival checks made: no term is counted twice, also
\* when attempt_reenlistment is called several times with no survival
\* check in between.
C39_TermsCountedOnce ==
    character.terms_served <= Len(character.terms)

\* a survival check of the history recorded the death of the character
Died ==
    \E i \in DOMAIN History :
        History[i].event_type = "survival_check" /\ History[i].outcome = "died"

\* C40: after a survival check with outcome died, attempt_reenlistment
\* never continues the career: it records no continue_career = TRUE,
\* grants no skill eligibility and advances neither age nor terms_served.
C40_NoCareerAfterDeath ==
    [][(/\ Died
        /\ \E preference \in ReenlistPreferences : TermReenlist(preference)) =>
           /\ \A i \in (Len(History) + 1) .. Len(character'.career_history) :
                  LET e == character'.career_history[i]
                  IN  e.event_type = "reenlistment_attempt" => ~e.continue_career
           /\ character'.skill_eligibility = character.skill_eligibility
           /\ character'.age = character.age
           /\ character'.terms_served = character.terms_served]_vars

C26_TermCompleted ==
    [][\A preference \in ReenlistPreferences :
         LET e == ReenlistmentEvent(character'.career_history)
         IN  (/\ raised' = "none"
              /\ TermReenlist(preference)
              /\ e.outcome # "medical_discharge") =>
                /\ character'.age = character.age + 4
                /\ character'.terms_served = character.terms_served + 1]_vars

----------------------------------------------------------------------------
(* Veteran specification: a record that has enlisted and served            *)
(* RetirementTerms terms (survival check, then reenlistment, per term, as   *)
(* the term loop of the demo runs them) goes through further survival      *)
(* checks and reenlistment attempts with every accepted preference.        *)

MaxVeteranSkip == 3
MaxVeteranTerms == 7

\* Retirement requires 5+ terms.
RetirementTerms == 5

VeteranServices == {"Army", "Scouts", "Merchants"}

RECURSIVE ServeTerms(_, _)
ServeTerms(result, terms) ==
    IF terms = 0 THEN result
    ELSE LET survived == check_survival(result.rng, result.rec, FALSE)
         IN  ServeTerms(attempt_reenlistment(survived.rng, survived.rec, "reenlist"),
                        terms - 1)

Veteran(seed, skipped, service) ==
    ServeTerms(attempt_enlistment(
                   [seed |-> seed, pos |-> skipped],
                   [create_character_record EXCEPT
                        !.seed = seed, !.characteristics = TestProfile],
                   service),
               RetirementTerms)

VeteranInit ==
    \E seed \in EnlistSeeds, skipped \in 0 .. MaxVeteranSkip,
       service \in VeteranServices :
        /\ character = Veteran(seed, skipped, service).rec
        /\ rng = Veteran(seed, skipped, service).rng
        /\ file = <<>>
        /\ raised = "none"
        /\ consumed = <<>>
        /\ resumed = get_random_generator([create_character_record EXCEPT !.seed = seed])
        /\ generated = {}
        /\ cached = TRUE

VeteranApply(result) ==
    /\ rng' = result.rng
    /\ character' = result.rec
    /\ raised' = result.raised
    /\ UNCHANGED <<file, consumed, resumed, generated, cached>>

VeteranSurvival(death_rule_enabled) ==
    /\ Len(character.terms) < MaxVeteranTerms
    /\ VeteranApply(check_survival(rng, character, death_rule_enabled))

VeteranReenlist(preference) ==
    /\ character.terms_served < MaxVeteranTerms
    /\ VeteranApply(attempt_reenlistment(rng, character, preference))

VeteranNext ==
    \/ \E death_rule_enabled \in BOOLEAN : VeteranSurvival(death_rule_enabled)
    \/ \E preference \in Preferences : VeteranReenlist(preference)

SpecVeteran == VeteranInit /\ [][VeteranNext]_vars

\* C21: for a term that was not injured, the reenlistment outcome is
\* determined by (roll, preference, career target): a roll of 12 gives
\* 'retained' with continue_career = true for every preference, including
\* retire and discharge; otherwise preference reenlist gives 'reenlisted' and
\* continue when roll >= target and 'discharged' and stop when roll < target,
\* preference discharge gives 'discharged' and stop and preference retire
\* gives 'retired' and stop.
C21_ReenlistmentOutcome ==
    [][\A preference \in Preferences :
         LET e == ReenlistmentEvent(character'.career_history)
             roll == roll_2d6(rng).value
             target == reenlistment_target(character.career)
         IN  (/\ ~LastTermInjured
              /\ raised' = "none"
              /\ VeteranReenlist(preference)) =>
                /\ e.event_type = "reenlistment_attempt"
                /\ e.preference = preference
                /\ e.roll = roll
                /\ e.target = target
                /\ roll = 12 => e.outcome = "retained" /\ e.continue_career
                /\ (roll # 12 /\ preference = "reenlist" /\ roll >= target) =>
                       e.outcome = "reenlisted" /\ e.continue_career
                /\ (roll # 12 /\ preference = "reenlist" /\ roll < target) =>
                       e.outcome = "discharged" /\ ~e.continue_career
                /\ (roll # 12 /\ preference = "discharge") =>
                       e.outcome = "discharged" /\ ~e.continue_career
                /\ (roll # 12 /\ preference = "retire") =>
                       e.outcome = "retired" /\ ~e.continue_career]_vars

C21_Witness ==
    /\ Len(History) >= 2
    /\ ReenlistmentEvent(History).event_type = "reenlistment_attempt"
    /\ ReenlistmentEvent(History).preference = "retire"
    /\ ReenlistmentEvent(History).roll = 12
    /\ ReenlistmentEvent(History).outcome = "retained"
    /\ ReenlistmentEvent(History).continue_career

----------------------------------------------------------------------------
(* Mustering-out specification: a record that has enlisted and served up   *)
(* to MaxMusterTerms terms (per term a survival check, the commission and  *)
(* promotion checks, one personal skill and a reenlistment, as the term    *)
(* loop of the demo runs them) musters out, with or without a requested    *)
(* number of cash rolls, up to MaxMusters times.                           *)

MaxMusterTerms == 4
MaxMusters == 2

CashRollRequests == {<<>>, <<-1>>, <<0>>, <<2>>, <<5>>}

RECURSIVE ServeOfficerTerms(_, _)
ServeOfficerTerms(result, terms) ==
    IF terms = 0 THEN result
    ELSE LET survived == check_survival(result.rng, result.rec, FALSE)
             commission == check_commission(survived.rng, survived.rec)
             promotion == check_promotion(commission.rng, commission.rec)
             skill == IF promotion.rec.skill_eligibility > 0
                      THEN resolve_skill(promotion.rng, promotion.rec, "personal")
                      ELSE promotion
         IN  ServeOfficerTerms(attempt_reenlistment(skill.rng, skill.rec, "reenlist"),
                               terms - 1)

Officer(seed, skipped, service, terms) ==
    ServeOfficerTerms(attempt_enlistment(
                          [seed |-> seed, pos |-> skipped],
                          [create_character_record EXCEPT
                               !.seed = seed, !.characteristics = TestProfile],
                          service),
                      terms)

MusterInit ==
    \E seed \in EnlistSeeds, skipped \in 0 .. MaxVeteranSkip,
       service \in ServiceNames \ {"Pirates"}, terms \in 0 .. MaxMusterTerms :
        /\ character = Officer(seed, skipped, service, terms).rec
        /\ rng = Officer(seed, skipped, service, terms).rng
        /\ file = <<>>
        /\ raised = "none"
        /\ consumed = <<>>
        /\ resumed = get_random_generator([create_character_record EXCEPT !.seed = seed])
        /\ generated = {}
        /\ cached = TRUE

Muster(cash_rolls) ==
    /\ CountEvents(History, "mustering_out_summary") < MaxMusters
    /\ VeteranApply(perform_mustering_out(rng, character, cash_rolls))

MusterNext == \E cash_rolls \in CashRollRequests : Muster(cash_rolls)

SpecMuster == MusterInit /\ [][MusterNext]_vars

\* the events a step appended to career_history
NewEvents ==
    SubSeq(character'.career_history,
           Len(character.career_history) + 1, Len(character'.career_history))

\* C27: perform_mustering_out makes exactly totalRolls 1d6 draws, where
\* totalRolls = terms_served + rank bonus (0 for rank 0, 1 for rank 1-2, 2 for
\* rank 3-4, 3 for rank 5-6): cash_rolls is min(3, totalRolls) when not
\* requested and otherwise the request clamped to [0, min(3, totalRolls)], the
\* other totalRolls - cash_rolls draws are benefit rolls, and
\* calculate_mustering_out_info reports the same totalRolls for the record.
C27_MusteringRolls ==
    [][\A cash_rolls \in CashRollRequests :
         LET rank == character.rank
             bonus == CASE rank = 0 -> 0
                        [] rank \in 1 .. 2 -> 1
                        [] rank \in 3 .. 4 -> 2
                        [] OTHER -> 3
             totalRolls == character.terms_served + bonus
             most == IF totalRolls < 3 THEN totalRolls ELSE 3
             cash == IF cash_rolls = <<>> THEN most
                     ELSE IF cash_rolls[1] < 0 THEN 0
                     ELSE IF cash_rolls[1] > most THEN most
                     ELSE cash_rolls[1]
             summary == Last(character'.career_history)
         IN  (Muster(cash_rolls) /\ rank \in 0 .. 6) =>
                /\ raised' = "none"
                /\ rng' = [rng EXCEPT !.pos = @ + totalRolls]
                /\ CountEvents(NewEvents, "mustering_out_cash_roll") = cash
                /\ CountEvents(NewEvents, "mustering_out_benefit_roll") = totalRolls - cash
                /\ summary.event_type = "mustering_out_summary"
                /\ summary.total_rolls = totalRolls
                /\ summary.cash_rolls = cash
                /\ summary.benefit_rolls = totalRolls - cash
                /\ calculate_mustering_out_info(character).total_rolls = totalRolls]_vars

C27_Witness ==
    /\ character.terms_served = 3
    /\ character.rank = 2
    /\ CountEvents(History, "mustering_out_summary") = 1
    /\ Last(History).event_type = "mustering_out_summary"
    /\ Last(History).total_rolls = 4
    /\ Last(History).cash_rolls = 2
    /\ Last(History).benefit_rolls = 2

\* the events of one kind among those a step appended
NewEventsOf(event_type) ==
    SelectSeq(NewEvents, LAMBDA e : e.event_type = event_type)

\* C28: for each of the six careers (Navy, Marines, Army, Scouts, Merchants,
\* Others), every mustering-out cash roll pays the entry of that career's own
\* cash schedule at index min(7, 1d6 + (1 if rank >= 5) + Gambling level), and
\* every benefit roll yields the entry of that career's own benefit table at
\* index min(7, 1d6 + (1 if rank >= 5)).
C28_OwnCareerTables ==
    [][\A cash_rolls \in CashRollRequests :
         LET career == character.career
             own == CASE career = "Merchants" -> "Merchant"
                      [] career = "Others" -> "Other"
                      [] OTHER -> career
             officer == IF character.rank >= 5 THEN 1 ELSE 0
             gambling == IF "Gambling" \in DOMAIN character.skills
                         THEN character.skills["Gambling"] ELSE 0
             paid == NewEventsOf("mustering_out_cash_roll")
             given == NewEventsOf("mustering_out_benefit_roll")
             capped(n) == IF n > 7 THEN 7 ELSE n
         IN  Muster(cash_rolls) =>
                /\ \A i \in 1 .. Len(paid) :
                      /\ paid[i].roll = randint([rng EXCEPT !.pos = @ + i - 1]).value
                      /\ paid[i].amount =
                             cash_table(own)[capped(paid[i].roll + officer + gambling)]
                /\ \A i \in 1 .. Len(given) :
                      LET index == capped(given[i].roll + officer)
                      IN  /\ given[i].roll =
                                 randint([rng EXCEPT !.pos = @ + Len(paid) + i - 1]).value
                          /\ index \in DOMAIN benefit_table(own)
                          /\ given[i].benefit = benefit_table(own)[index]]_vars

----------------------------------------------------------------------------
(* Ageing specification: one Character object of character_generator.py    *)
(* whose characteristics earlier ageing checks have brought low, aged by   *)
(* standard and advanced ageing checks that draw from the random module.   *)

MaxAgeingValue == 2
MaxAgeingLog == 6

\* values of a characteristic that earlier ageing checks have reduced
AgeingValues == 0 .. MaxAgeingValue

AgeingStats == {"str", "dex", "end", "int"}

\* ages the checks are called with: 66 is outside both lists of
\* apply_ageing_effects
AgeingAges == {34, 50, 66}

AdvancedAges == {66}

\* stat.upper()
upper(stat) ==
    CASE stat = "str" -> "STR"
      [] stat = "dex" -> "DEX"
      [] stat = "end" -> "END"
      [] stat = "int" -> "INT"

standard_checks_uniform(age) ==
    IF age \in {34, 38, 42, 46}
    THEN << <<"str", 8, 1>>, <<"dex", 8, 1>>, <<"end", 8, 1>> >>
    ELSE IF age \in {50, 54, 58, 62}
    THEN << <<"str", 9, 1>>, <<"dex", 9, 1>>, <<"end", 9, 1>> >>
    ELSE <<>>

\* the checks of apply_ageing_effects as <<stat, target, loss>>; no list is
\* bound for an age outside the two phases
standard_checks(age) ==
    IF age \in {34, 38, 42, 46}
    THEN << <<"str", 8, 1>>, <<"dex", 7, 1>>, <<"end", 8, 1>> >>
    ELSE IF age \in {50, 54, 58, 62}
    THEN << <<"str", 9, 1>>, <<"dex", 8, 1>>, <<"end", 9, 1>> >>
    ELSE <<>>

advanced_checks ==
    << <<"str", 9, 2>>, <<"dex", 9, 2>>, <<"end", 9, 2>>, <<"int", 9, 1>> >>

characteristic_after_loss_unclamped(value, loss) == value - loss

\* max(0, self.characteristics[stat] - loss)
characteristic_after_loss(value, loss) == Max(0, value - loss)

\* self.log_event('ageing_check', data)
ageing_check_event(self, age, stat, roll, target, old_value, new_value, phase) ==
    [event_type |-> "ageing_check",
     term |-> self.terms_served,
     age |-> self.age,
     data |-> [age |-> age, stat |-> upper(stat), roll |-> roll,
               target |-> target, old_value |-> old_value,
               new_value |-> new_value, loss |-> old_value - new_value,
               phase |-> phase]]

\* the loop over the checks that both ageing functions run
RECURSIVE ageing_checks(_, _, _, _, _)
ageing_checks(g, self, age, checks, phase) ==
    IF Len(checks) = 0 THEN Returned(g, self)
    ELSE LET stat == checks[1][1]
             target == checks[1][2]
             loss == checks[1][3]
             roll == roll_2d6(g)
             old_value == self.characteristics[stat]
             new_value == IF roll.value < target
                          THEN characteristic_after_loss(old_value, loss)
                          ELSE old_value
             event == ageing_check_event(self, age, stat, roll.value, target,
                                         old_value, new_value, phase)
         IN  ageing_checks(roll.rng,
                           [self EXCEPT !.characteristics[stat] = new_value,
                                        !.generation_log = Append(@, event)],
                           age, Tail(checks), phase)

apply_ageing_effects(g, self, age) ==
    IF Len(standard_checks(age)) = 0
    THEN Raised(g, self, "UnboundLocalError")
    ELSE ageing_checks(g, self, age, standard_checks(age), "standard")

apply_advanced_ageing_effects(g, self, age) ==
    ageing_checks(g, self, age, advanced_checks, "advanced")

AgeingInit ==
    \E seed \in EnlistSeeds, skipped \in 0 .. MaxVeteranSkip,
       values \in [AgeingStats -> AgeingValues] :
        /\ character = [age |-> 18,
                        terms_served |-> 0,
                        characteristics |-> values,
                        generation_log |-> <<>>]
        /\ rng = [Random(seed) EXCEPT !.pos = skipped]
        /\ file = <<>>
        /\ raised = "none"
        /\ consumed = <<>>
        /\ resumed = Random(seed)
        /\ generated = {}
        /\ cached = TRUE

AgeingCheck(age) ==
    /\ Len(character.generation_log) < MaxAgeingLog
    /\ VeteranApply(apply_ageing_effects(rng, character, age))

AdvancedAgeingCheck(age) ==
    /\ Len(character.generation_log) < MaxAgeingLog
    /\ VeteranApply(apply_advanced_ageing_effects(rng, character, age))

AgeingNext ==
    \/ \E age \in AgeingAges : AgeingCheck(age)
    \/ \E age \in AdvancedAges : AdvancedAgeingCheck(age)

SpecAgeing == AgeingInit /\ [][AgeingNext]_vars

\* C30: an ageing check never leaves a characteristic below 0: from
\* characteristics that are all at least 0, after apply_ageing_effects or
\* apply_advanced_ageing_effects every tested characteristic is still at
\* least 0 and every check logged records a new value of at least 0, also
\* when the loss of the check is larger than the value it is taken from.
C30_AgeingNeverNegative ==
    [][(/\ \A stat \in AgeingStats : character.characteristics[stat] >= 0
        /\ AgeingNext) =>
          /\ \A stat \in AgeingStats : character'.characteristics[stat] >= 0
          /\ \A i \in DOMAIN character'.generation_log :
                 character'.generation_log[i].data.new_value >= 0]_vars

\* an advanced check took its loss of 2 from a strength of 1 and left 0
C30_Witness ==
    \E i \in DOMAIN character.generation_log :
        LET data == character.generation_log[i].data
        IN  /\ data.phase = "advanced"
            /\ data.stat = "STR"
            /\ data.roll < data.target
            /\ data.old_value = 1
            /\ data.new_value = 0
            /\ character.characteristics["str"] = 0

----------------------------------------------------------------------------
(* Term ageing specification: Character objects of character_generator.py  *)
(* loaded at the age a term has ended at, on which check_ageing runs the   *)
(* checks of every threshold the last four years crossed.                  *)

MaxAgeingCalls == 2

\* ages a character has when a term ends, from before the first threshold
\* to the second advanced check
TermAges == {30, 34, 38, 42, 46, 50, 54, 58, 62, 66, 70}

\* characteristics of one value each
AgeingProfiles == {[stat \in AgeingStats |-> value] : value \in AgeingValues}

ageing_thresholds == <<34, 38, 42, 46, 50, 54, 58, 62>>

advanced_ageing_start == 66

\* self.log_event(event_type, data)
log_event(self, event_type, data) ==
    [self EXCEPT !.generation_log =
        Append(@, [event_type |-> event_type, term |-> self.terms_served,
                   age |-> self.age, data |-> data])]

\* the ageing_threshold_check events, without their reason and note texts
threshold_check_event(self, age, phase, threshold_crossed) ==
    log_event(self, "ageing_threshold_check",
              [age |-> age, previous_age |-> self.age - 4,
               current_age |-> self.age, phase |-> phase,
               threshold_crossed |-> threshold_crossed])

\* the loop of check_ageing over the standard thresholds from index i on
RECURSIVE standard_thresholds(_, _, _)
standard_thresholds(g, self, i) ==
    IF i > Len(ageing_thresholds) THEN Returned(g, self)
    ELSE LET threshold == ageing_thresholds[i]
         IN  IF self.age - 4 < threshold /\ threshold <= self.age
             THEN LET done == apply_ageing_effects(
                                  g, threshold_check_event(self, threshold, "standard", TRUE),
                                  threshold)
                  IN  standard_thresholds(done.rng, done.rec, i + 1)
             ELSE standard_thresholds(
                      g, threshold_check_event(self, threshold, "standard", FALSE), i + 1)

\* the loop of check_ageing over range(age, current_age + 1, 4)
RECURSIVE advanced_thresholds(_, _, _)
advanced_thresholds(g, self, age) ==
    IF age > self.age THEN Returned(g, self)
    ELSE IF age >= advanced_ageing_start
    THEN LET done == apply_advanced_ageing_effects(
                         g, threshold_check_event(self, age, "advanced", TRUE), age)
         IN  advanced_thresholds(done.rng, done.rec, age + 4)
    ELSE advanced_thresholds(g, self, age + 4)

\* the ageing_check events of a log from index first on
RECURSIVE ChecksLogged(_, _)
ChecksLogged(log, first) ==
    IF first > Len(log) THEN <<>>
    ELSE (IF log[first].event_type = "ageing_check" THEN <<log[first].data>> ELSE <<>>)
             \o ChecksLogged(log, first + 1)

\* the effects list: one f"-{actual_loss} {stat}" for every check failed
RECURSIVE ageing_effects_of(_)
ageing_effects_of(checks) ==
    IF Len(checks) = 0 THEN <<>>
    ELSE (IF checks[1].roll < checks[1].target
          THEN << <<checks[1].loss, checks[1].stat>> >> ELSE <<>>)
             \o ageing_effects_of(Tail(checks))

\* the ages checks_performed lists: one for every threshold crossed
RECURSIVE checks_performed_of(_, _)
checks_performed_of(log, first) ==
    IF first > Len(log) THEN <<>>
    ELSE (IF /\ log[first].event_type = "ageing_threshold_check"
             /\ log[first].data.threshold_crossed
          THEN <<log[first].data.age>> ELSE <<>>)
             \o checks_performed_of(log, first + 1)

check_ageing(g, self) ==
    LET previous_age == self.age - 4
        current_age == self.age
        first == Len(self.generation_log) + 1
        started == log_event(self, "ageing_check_start",
                             [term |-> self.terms_served,
                              previous_age |-> previous_age,
                              current_age |-> current_age, age_increase |-> 4])
        standard == standard_thresholds(g, started, 1)
        advanced ==
            IF current_age >= advanced_ageing_start
            THEN advanced_thresholds(
                     standard.rng, standard.rec,
                     Max(66, ((previous_age \div 4) + 1) * 4))
            ELSE Returned(standard.rng,
                          threshold_check_event(standard.rec, advanced_ageing_start,
                                                "advanced", FALSE))
        checks_performed == checks_performed_of(advanced.rec.generation_log, first)
        noted == IF Len(checks_performed) = 0
                 THEN threshold_check_event(advanced.rec, current_age, "none", FALSE)
                 ELSE advanced.rec
        ageing_effects == ageing_effects_of(ChecksLogged(noted.generation_log, first))
    IN  Returned(advanced.rng,
                 log_event(noted, "ageing_check_complete",
                           [term |-> self.terms_served,
                            checks_performed |-> checks_performed,
                            ageing_effects |-> ageing_effects,
                            total_effects |-> Len(ageing_effects)]))

TermAgeingInit ==
    \E seed \in EnlistSeeds, skipped \in 0 .. MaxVeteranSkip,
       age \in TermAges, values \in AgeingProfiles :
        /\ character = [age |-> age,
                        terms_served |-> 0,
                        characteristics |-> values,
                        generation_log |-> <<>>]
        /\ rng = [Random(seed) EXCEPT !.pos = skipped]
        /\ file = <<>>
        /\ raised = "none"
        /\ consumed = <<>>
        /\ resumed = Random(seed)
        /\ generated = {}
        /\ cached = TRUE

CheckAgeing ==
    /\ Len(SelectSeq(character.generation_log,
                     LAMBDA e : e.event_type = "ageing_check_start")) < MaxAgeingCalls
    /\ VeteranApply(check_ageing(rng, character))

TermAgeingNext == CheckAgeing

SpecTermAgeing == TermAgeingInit /\ [][TermAgeingNext]_vars

\* a check_ageing step at one of the ages tested strength, dexterity and
\* endurance, in this order and nothing else, against the three targets,
\* each with the next 2d6 of the stream, and took 1 point (none from a
\* characteristic at 0) exactly from those whose roll was below the target
StandardChecksAs(ages, str_target, dex_target, end_target) ==
    (character.age \in ages /\ CheckAgeing) =>
        LET checks == ChecksLogged(character'.generation_log,
                                   Len(character.generation_log) + 1)
            stats == <<"str", "dex", "end">>
            names == <<"STR", "DEX", "END">>
            targets == <<str_target, dex_target, end_target>>
        IN  /\ Len(checks) = 3
            /\ \A i \in 1 .. 3 :
                   LET roll == roll_2d6([rng EXCEPT !.pos = @ + 2 * (i - 1)]).value
                       old_value == character.characteristics[stats[i]]
                       new_value == IF roll < targets[i]
                                    THEN (IF old_value >= 1 THEN old_value - 1 ELSE 0)
                                    ELSE old_value
                   IN  /\ checks[i].stat = names[i]
                       /\ checks[i].target = targets[i]
                       /\ checks[i].roll = roll
                       /\ checks[i].old_value = old_value
                       /\ checks[i].new_value = new_value
                       /\ character'.characteristics[stats[i]] = new_value
            /\ character'.characteristics["int"] = character.characteristics["int"]
            /\ rng'.pos = rng.pos + 6

\* C31: at each of the ages 34, 38, 42, 46 the ageing check tests strength
\* and endurance against target 8 and dexterity against target 7, and at
\* each of the ages 50, 54, 58, 62 strength and endurance against target 9
\* and dexterity against target 8; a characteristic loses 1 point (none
\* when it is 0) exactly when its 2d6 roll is below its target.
C31_AgeingTable ==
    [][/\ StandardChecksAs({34, 38, 42, 46}, 8, 7, 8)
       /\ StandardChecksAs({50, 54, 58, 62}, 9, 8, 9)]_vars

\* C31 as stated: every one of the three characteristics is tested against
\* target 8 at the ages 34 to 46 and against target 9 at the ages 50 to 62.
C31_UniformTargets ==
    [][/\ StandardChecksAs({34, 38, 42, 46}, 8, 8, 8)
       /\ StandardChecksAs({50, 54, 58, 62}, 9, 9, 9)]_vars

\* at 34 a dexterity roll of exactly 7 cost nothing while a strength roll
\* below 8 cost a point
C31_Witness ==
    /\ character.age = 34
    /\ LET checks == ChecksLogged(character.generation_log, 1)
       IN  /\ Len(checks) >= 3
           /\ checks[1].roll < 8 /\ checks[1].new_value = checks[1].old_value - 1
           /\ checks[2].stat = "DEX" /\ checks[2].roll = 7
           /\ checks[2].old_value >= 1 /\ checks[2].new_value = checks[2].old_value

----------------------------------------------------------------------------
(* Character reenlistment specification: the term loop of                   *)
(* character_generator.py asking Character.attempt_reenlistment whether a  *)
(* character of a career and an age continues, and logging the answer.     *)

MaxAttempts == 2

AttemptAges == {22, 46, 50}

AttemptCareers == {"Navy", "Army", "Scouts"}

\* Character.reenlistment_roll(career)
Character_reenlistment_roll(career) ==
    CASE career = "Navy"      -> 6
      [] career = "Marines"   -> 6
      [] career = "Army"      -> 7
      [] career = "Scouts"    -> 3
      [] career = "Merchants" -> 4
      [] career = "Others"    -> 5
      [] OTHER                -> 5

\* Character.attempt_reenlistment(career, age, preference): the value it
\* returns, "" when it raises; no branch reads age
Character_attempt_reenlistment(g, career, age, preference) ==
    LET target == Character_reenlistment_roll(career)
        roll == roll_2d6(g)
        continue_career ==
            IF roll.value = 12 THEN TRUE
            ELSE preference = "reenlist" /\ roll.value >= target
        outcome ==
            IF roll.value = 12 THEN "retained"
            ELSE IF preference = "reenlist"
            THEN (IF roll.value >= target THEN "reenlisted" ELSE "military-discharge")
            ELSE IF preference = "discharge" THEN "discharged" ELSE "retired"
    IN  IF roll.value # 12 /\ preference \notin {"reenlist", "discharge", "retire"}
        THEN [value |-> "", rng |-> roll.rng, raised |-> "UnboundLocalError"]
        ELSE [value |-> IF continue_career
                        THEN (IF outcome = "reenlisted" THEN "approved" ELSE "mandatory")
                        ELSE "denied",
              rng |-> roll.rng, raised |-> "none"]

AttemptInit ==
    \E seed \in EnlistSeeds, skipped \in 0 .. MaxVeteranSkip,
       age \in AttemptAges, career \in AttemptCareers :
        /\ character = [age |-> age,
                        terms_served |-> 0,
                        career |-> career,
                        generation_log |-> <<>>]
        /\ rng = [Random(seed) EXCEPT !.pos = skipped]
        /\ file = <<>>
        /\ raised = "none"
        /\ consumed = <<>>
        /\ resumed = Random(seed)
        /\ generated = {}
        /\ cached = TRUE

\* reenlistment_result = Character.attempt_reenlistment(career, c.age,
\* preference); c.log_event('reenlistment_attempt', ...)
AttemptReenlistment(preference) ==
    LET done == Character_attempt_reenlistment(rng, character.career,
                                               character.age, preference)
    IN  /\ Len(character.generation_log) < MaxAttempts
        /\ rng' = done.rng
        /\ raised' = done.raised
        /\ character' =
               IF done.raised = "none"
               THEN log_event(character, "reenlistment_attempt",
                              [career |-> character.career, age |-> character.age,
                               result |-> done.value])
               ELSE character
        /\ UNCHANGED <<file, consumed, resumed, generated, cached>>

AttemptNext == \E preference \in Preferences : AttemptReenlistment(preference)

SpecAttempt == AttemptInit /\ [][AttemptNext]_vars

\* C34: Character.attempt_reenlistment for a character aged 46 or more who
\* wants to reenlist never returns 'approved': it returns 'mandatory'
\* exactly on a roll of 12 and 'denied' on every other roll.
C34_NoReenlistmentFrom46 ==
    [][(character.age >= 46 /\ AttemptReenlistment("reenlist")) =>
          LET result == Last(character'.generation_log).data.result
          IN  /\ result # "approved"
              /\ result = (IF roll_2d6(rng).value = 12 THEN "mandatory" ELSE "denied")]_vars

----------------------------------------------------------------------------
(* Endpoints specification: the engine variant of                           *)
(* character_generation_endpoints.py, whose attempt_enlistment and         *)
(* check_commission are those of the rules engine and whose check_survival *)
(* also advances age and terms_served.  A failed survival adds half a      *)
(* term: terms_served holds the whole terms and half_term the half.        *)

MaxEndpointsHistory == 4
MaxEndpointsPos == 12

EndpointsServices == {"Navy", "Marines", "Army"}

HalfTerm(rec) == "half_term" \in DOMAIN rec /\ rec.half_term

SetHalfTerm(rec, half) ==
    [key \in DOMAIN rec \cup {"half_term"} |->
        IF key = "half_term" THEN half ELSE rec[key]]

\* if survived: age + 4, terms_served + 1; else: age + 2, terms_served + 0.5
endpoints_term_progress(rec, survived) ==
    IF survived
    THEN [rec EXCEPT !.age = @ + 4, !.terms_served = @ + 1]
    ELSE IF HalfTerm(rec)
    THEN SetHalfTerm([rec EXCEPT !.age = @ + 2, !.terms_served = @ + 1], FALSE)
    ELSE SetHalfTerm([rec EXCEPT !.age = @ + 2], TRUE)

endpoints_check_survival(g, rec, death_rule_enabled) ==
    LET done == check_survival(g, rec, death_rule_enabled)
    IN  IF done.raised # "none" THEN done
        ELSE Returned(done.rng,
                      endpoints_term_progress(
                          done.rec, Last(done.rec.career_history).success))

EndpointsInit ==
    \E seed \in EnlistSeeds, skipped \in 0 .. MaxVeteranSkip, profile \in Profiles :
        /\ character = [create_character_record EXCEPT
                            !.seed = seed, !.characteristics = profile]
        /\ rng = [set_seed(seed) EXCEPT !.pos = skipped]
        /\ file = <<>>
        /\ raised = "none"
        /\ consumed = <<>>
        /\ resumed = get_random_generator([create_character_record EXCEPT !.seed = seed])
        /\ generated = {}
        /\ cached = TRUE

EndpointsEnlist(service) ==
    /\ character.career_history = <<>>
    /\ ApplyWithin(MaxEndpointsHistory, MaxEndpointsPos,
                   attempt_enlistment(rng, character, service))

EndpointsSurvival(death_rule_enabled) ==
    ApplyWithin(MaxEndpointsHistory, MaxEndpointsPos,
                endpoints_check_survival(rng, character, death_rule_enabled))

EndpointsCommission ==
    ApplyWithin(MaxEndpointsHistory, MaxEndpointsPos, check_commission(rng, character))

EndpointsNext ==
    \/ \E service \in EndpointsServices : EndpointsEnlist(service)
    \/ \E death_rule_enabled \in BOOLEAN : EndpointsSurvival(death_rule_enabled)
    \/ EndpointsCommission

SpecEndpoints == EndpointsInit /\ [][EndpointsNext]_vars

\* C37: for a character drafted at enlistment, a commission check made in
\* the first term, after the first survival check and before any
\* reenlistment, is recorded as not applicable and draws no dice.
C37_DraftedFirstTerm ==
    [][(/\ character.drafted
        /\ Len(character.terms) = 1
        /\ CountEvents(History, "reenlistment_attempt") = 0
        /\ EndpointsCommission) =>
           /\ Appended("commission_check")
           /\ Last(character'.career_history).outcome = "not applicable"
           /\ rng' = rng]_vars

----------------------------------------------------------------------------
(* Rank specification: one officer's career over many checks, with          *)
(* enlistments into Army and Merchants, commission and promotion checks.   *)

MaxRankHistory == 8
MaxRankPos == 16

RankInit ==
    \E seed \in Seeds :
        /\ character = [create_character_record EXCEPT
                            !.seed = seed, !.characteristics = TestProfile]
        /\ rng = set_seed(seed)
        /\ file = <<>>
        /\ raised = "none"
        /\ consumed = <<>>
        /\ resumed = get_random_generator([create_character_record EXCEPT !.seed = seed])
        /\ generated = {}
        /\ cached = TRUE

RankEnlist(service) ==
    ApplyWithin(MaxRankHistory, MaxRankPos, attempt_enlistment(rng, character, service))

RankCommission == ApplyWithin(MaxRankHistory, MaxRankPos, check_commission(rng, character))

RankPromotion == ApplyWithin(MaxRankHistory, MaxRankPos, check_promotion(rng, character))

RankNext ==
    \/ \E service \in {"Army", "Merchants"} : RankEnlist(service)
    \/ RankCommission
    \/ RankPromotion

SpecRank == RankInit /\ [][RankNext]_vars

\* C10: rank lies between 0 and the rank ceiling of the current career
\* (Navy 6, Marines 6, Army 6, Merchants 5), also after a later enlistment
\* or draft into another service.
C10_RankWithinCeiling ==
    /\ character.rank >= 0
    /\ character.career \in {"Navy", "Marines", "Army", "Merchants"} =>
            character.rank <= max_ranks(character.career)

----------------------------------------------------------------------------
(* API specification: the Flask handlers of app.py serving one character.  *)
(* characters_db is the pair (cached, character); the JSON file is the     *)
(* sequence file, empty while no file exists.  consumed lists, per request *)
(* that drew from the seeded stream, the positions it consumed.            *)

MaxApiHistory == 4
MaxMusterHistory == 7
MaxSpans == 6

generate_character_name(g) ==
    LET first == choice(g, 20)
        last == choice(first.rng, 20)
    IN  [value |-> <<first.value, last.value>>, rng |-> last.rng]

\* json.dump writes a tuple as an array
json_dump(rec) ==
    [rec EXCEPT !.random_state =
        IF @.kind = "tuple" THEN [@ EXCEPT !.kind = "list"] ELSE @]

\* json.load reads an array back as a list
json_load(text) == text

save_character_to_json(rec) == <<json_dump(rec)>>

load_character_from_json == json_load(file[1])

get_character == IF cached THEN character ELSE load_character_from_json

Found == cached \/ Len(file) = 1

Span(op, first, next) == [op |-> op, first |-> first, next |-> next]

Record(op, first, next) ==
    IF next > first THEN Append(consumed, Span(op, first, next)) ELSE consumed

Respond(status) ==
    /\ raised' = status
    /\ UNCHANGED <<character, rng, file, consumed, resumed, generated, cached>>

\* a response sent after get_character, which caches the record it loaded
RespondLoaded(status) ==
    /\ raised' = status
    /\ character' = get_character
    /\ cached' = TRUE
    /\ UNCHANGED <<rng, file, consumed, resumed, generated>>

ApiInit ==
    /\ character = create_character_record
    /\ rng = set_seed(0)
    /\ file = <<>>
    /\ raised = "none"
    /\ consumed = <<>>
    /\ resumed = get_random_generator(create_character_record)
    /\ generated = {}
    /\ cached = FALSE

initialize_character(seed) ==
    LET random_generator == set_seed(seed)
        name == generate_character_name(random_generator)
        new == [create_character_record EXCEPT !.name = name.value, !.seed = seed]
    IN  /\ ~Found
        /\ character' = new
        /\ cached' = TRUE
        /\ file' = save_character_to_json(new)
        /\ rng' = name.rng
        /\ consumed' = Record("initialize", random_generator.pos, name.rng.pos)
        /\ raised' = "none"
        /\ UNCHANGED <<resumed, generated>>

generate_single_characteristic(characteristic_name) ==
    LET stored == get_character
        random_generator == set_seed(stored.seed)
        r == generate_characteristic(random_generator, characteristic_name)
        new == [stored EXCEPT !.characteristics =
                    [c \in DOMAIN @ \cup {characteristic_name} |->
                        IF c = characteristic_name THEN r.value ELSE @[c]]]
    IN  IF characteristic_name \notin CharNames THEN Respond("400")
        ELSE IF ~Found THEN Respond("404")
        ELSE IF characteristic_name \in DOMAIN stored.characteristics
        THEN RespondLoaded("400")
        ELSE /\ character' = new
             /\ cached' = TRUE
             /\ file' = save_character_to_json(new)
             /\ rng' = r.rng
             /\ generated' = generated \cup
                    {[name |-> characteristic_name, value |-> r.value]}
             /\ raised' = "none"
             /\ UNCHANGED <<consumed, resumed>>

\* get_random_generator, one engine operation, save_random_state and
\* update_character, as every roll-performing handler does after its
\* validation.  An exception leaves the record as the operation had
\* updated it in memory and writes nothing.
PerformAnswering(op, gen, result, status) ==
    IF gen.raised # "none"
    THEN RespondLoaded("500")
    ELSE /\ Len(get_character.career_history) <
                (IF op = "muster-out" THEN MaxMusterHistory ELSE MaxApiHistory)
         /\ Len(consumed) < MaxSpans
         /\ resumed' = gen
         /\ rng' = result.rng
         /\ consumed' = Record(op, gen.rng.pos, result.rng.pos)
         /\ cached' = TRUE
         /\ UNCHANGED generated
         /\ IF result.raised = "none"
            THEN LET saved == save_random_state(result.rec, result.rng)
                 IN  /\ character' = saved
                     /\ file' = save_character_to_json(saved)
                     /\ raised' = status
            ELSE /\ character' = result.rec
                 /\ raised' = IF result.raised \in ValueErrors THEN "404" ELSE "500"
                 /\ UNCHANGED file

Perform(op, gen, result) == PerformAnswering(op, gen, result, "none")

\* the keys of the last event of career_history that reenlist_character
\* reads, after update_character, to build its response
ReenlistmentKeys ==
    {"outcome", "status_text", "continue_career", "roll", "target", "preference"}

\* the response of reenlist_character: a KeyError when the last event has
\* none of these keys
ReenlistmentResponse(rec) ==
    IF ReenlistmentKeys \subseteq DOMAIN Last(rec.career_history)
    THEN "none" ELSE "500"

enlist_character(service) ==
    LET stored == get_character
        gen == get_random_generator(stored)
    IN  IF service = "" THEN Respond("400")
        ELSE IF ~Found THEN Respond("404")
        ELSE IF Cardinality(DOMAIN stored.characteristics) < 6
        THEN RespondLoaded("400")
        ELSE Perform("enlist", gen, attempt_enlistment(gen.rng, stored, service))

commission_character ==
    LET stored == get_character
        gen == get_random_generator(stored)
    IN  IF ~Found THEN Respond("404")
        ELSE IF stored.career = "" THEN RespondLoaded("400")
        ELSE Perform("commission", gen, check_commission(gen.rng, stored))

promote_character ==
    LET stored == get_character
        gen == get_random_generator(stored)
    IN  IF ~Found THEN Respond("404")
        ELSE IF stored.career = "" THEN RespondLoaded("400")
        ELSE Perform("promotion", gen, check_promotion(gen.rng, stored))

check_character_survival ==
    LET stored == get_character
        gen == get_random_generator(stored)
    IN  IF ~Found THEN Respond("404")
        ELSE IF stored.career = "" THEN RespondLoaded("400")
        ELSE Perform("survival", gen, check_survival(gen.rng, stored, FALSE))

resolve_character_skill(table_choice) ==
    LET stored == get_character
        gen == get_random_generator(stored)
    IN  IF table_choice = "" THEN Respond("400")
        ELSE IF ~Found THEN Respond("404")
        ELSE Perform("skill", gen, resolve_skill(gen.rng, stored, table_choice))

reenlist_character(preference) ==
    LET stored == get_character
        gen == get_random_generator(stored)
    IN  IF preference \notin {"reenlist", "discharge", "retire"} THEN Respond("400")
        ELSE IF ~Found THEN Respond("404")
        ELSE LET result == attempt_reenlistment(gen.rng, stored, preference)
             IN  PerformAnswering("reenlist", gen, result,
                                  IF gen.raised = "none" /\ result.raised = "none"
                                  THEN ReenlistmentResponse(result.rec) ELSE "none")

never_mustered_out(stored) == FALSE

\* if character.get('mustering_out_benefits'): already mustered out
already_mustered_out(stored) == stored.mustering_out_benefits.done

muster_out_character(cash_rolls) ==
    LET stored == get_character
        gen == get_random_generator(stored)
    IN  IF cash_rolls # <<>> /\ (cash_rolls[1] < 0 \/ cash_rolls[1] > 3)
        THEN Respond("400")
        ELSE IF ~Found THEN Respond("404")
        ELSE IF stored.terms_served = 0 THEN RespondLoaded("400")
        ELSE IF already_mustered_out(stored)
        THEN RespondLoaded("400 Character has already mustered out")
        ELSE Perform("muster-out", gen, perform_mustering_out(gen.rng, stored, cash_rolls))

\* The server process stops and starts again: characters_db is empty, the
\* JSON files remain.
Restart ==
    /\ cached
    /\ cached' = FALSE
    /\ character' = create_character_record
    /\ raised' = "none"
    /\ UNCHANGED <<rng, file, consumed, resumed, generated>>

ApiServices == {"", "Army", "Scouts"}
ApiCharacteristics == CharNames \cup {"luck"}
ApiTables == {"", "personal"}
ApiPreferences == {"reenlist", "discharge", "desert"}
ApiCashRolls == {<<>>, <<4>>}

ApiNext ==
    \/ \E seed \in Seeds : initialize_character(seed)
    \/ \E characteristic_name \in ApiCharacteristics :
            generate_single_characteristic(characteristic_name)
    \/ \E service \in ApiServices : enlist_character(service)
    \/ commission_character
    \/ promote_character
    \/ check_character_survival
    \/ \E table_choice \in ApiTables : resolve_character_skill(table_choice)
    \/ \E preference \in ApiPreferences : reenlist_character(preference)
    \/ \E cash_rolls \in ApiCashRolls : muster_out_character(cash_rolls)
    \/ Restart

SpecApi == ApiInit /\ [][ApiNext]_vars

----------------------------------------------------------------------------
(* Mustering-out requests: the handlers that take one character from its   *)
(* creation through one term to mustering out, with restarts of the        *)
(* server in between.                                                      *)

MusterRequestNext ==
    \/ \E seed \in Seeds : initialize_character(seed)
    \/ \E characteristic_name \in CharNames :
            generate_single_characteristic(characteristic_name)
    \/ \E service \in {"Army", "Scouts"} : enlist_character(service)
    \/ check_character_survival
    \/ \E preference \in {"reenlist", "discharge"} : reenlist_character(preference)
    \/ \E cash_rolls \in ApiCashRolls : muster_out_character(cash_rolls)
    \/ Restart

SpecApiMuster == ApiInit /\ [][MusterRequestNext]_vars
----------------------------------------------------------------------------
(* Overlap specification: two requests of the threaded server for the one   *)
(* enlisted character, whose record characters_db holds.  A handler gets    *)
(* the record and resumes its generator in one step and runs the engine    *)
(* operation, saves the random state and updates the storage in a second   *)
(* step; steps of the two requests interleave.  resumed holds, per         *)
(* request, the handler's position and the generator it resumed.  The      *)
(* server is not restarted here, so every request finds the record in      *)
(* characters_db.                                                          *)

MaxOverlapHistory == 4

Requests == {1, 2}

OverlapOps == {"survival", "commission", "reenlist"}

OverlapServices == {"Army", "Scouts"}

\* the record the enlistment handler stored
Enlisted(seed, skipped, service) ==
    LET done == attempt_enlistment(
                    [seed |-> seed, pos |-> skipped],
                    [create_character_record EXCEPT
                         !.seed = seed, !.characteristics = TestProfile],
                    service)
    IN  save_random_state(done.rec, done.rng)

OverlapInit ==
    \E seed \in EnlistSeeds, skipped \in 0 .. MaxVeteranSkip,
       service \in OverlapServices :
        /\ character = Enlisted(seed, skipped, service)
        /\ rng = setstate(Enlisted(seed, skipped, service).random_state)
        /\ file = save_character_to_json(Enlisted(seed, skipped, service))
        /\ raised = "none"
        /\ consumed = <<>>
        /\ resumed = [q \in Requests |-> [pc |-> "idle", op |-> "", gen |-> None]]
        /\ generated = {}
        /\ cached = TRUE

InFlight == {q \in Requests : resumed[q].pc = "resumed"}

\* character = get_character(character_id);
\* random_generator = get_random_generator(character)
Resume(q, op) ==
    /\ resumed[q].pc # "resumed"
    /\ Len(character.career_history) + Cardinality(InFlight) < MaxOverlapHistory
    /\ resumed' = [resumed EXCEPT ![q] =
                      [pc |-> "resumed", op |-> op,
                       gen |-> get_random_generator(get_character)]]
    /\ character' = get_character
    /\ cached' = TRUE
    /\ UNCHANGED <<rng, file, raised, consumed, generated>>

\* the engine operation of a handler, on the record characters_db holds now
HandlerOperation(op, g, rec) ==
    CASE op = "survival"   -> check_survival(g, rec, FALSE)
      [] op = "commission" -> check_commission(g, rec)
      [] op = "reenlist"   -> attempt_reenlistment(g, rec, "reenlist")

\* the engine operation, save_random_state and update_character
Complete(q) ==
    /\ resumed[q].pc = "resumed"
    /\ LET op == resumed[q].op
           gen == resumed[q].gen
           result == HandlerOperation(op, gen.rng, character)
       IN  /\ rng' = result.rng
           /\ consumed' = Record(op, gen.rng.pos, result.rng.pos)
           /\ IF result.raised = "none"
              THEN LET saved == save_random_state(result.rec, result.rng)
                   IN  /\ character' = saved
                       /\ file' = save_character_to_json(saved)
                       /\ raised' = IF op = "reenlist"
                                    THEN ReenlistmentResponse(saved) ELSE "none"
              ELSE /\ character' = result.rec
                   /\ raised' = IF result.raised \in ValueErrors THEN "404" ELSE "500"
                   /\ UNCHANGED file
    /\ resumed' = [resumed EXCEPT ![q].pc = "done"]
    /\ UNCHANGED <<generated, cached>>

OverlapNext ==
    \/ \E q \in Requests, op \in OverlapOps : Resume(q, op)
    \/ \E q \in Requests : Complete(q)

SpecOverlap == OverlapInit /\ [][OverlapNext]_vars

\* C33: overlapping roll-performing requests for one character are atomic
\* with respect to each other: no two requests in flight have resumed the
\* stream from the same checkpoint, and no position of the stream is
\* consumed by two requests.
C33_RequestsAtomic ==
    /\ \A p, q \in InFlight :
           p # q => resumed[p].gen.rng.pos # resumed[q].gen.rng.pos
    /\ \A i, j \in DOMAIN consumed :
           i < j => consumed[j].first >= consumed[i].next


RollRequests ==
    {"enlist", "survival", "commission", "promotion", "skill", "reenlist", "muster-out"}

\* C29: mustering-out runs at most once per character: after one
\* mustering-out has stored mustering_out_benefits, no later mustering-out
\* request changes mustering_out_benefits, the characteristics,
\* career_history or the stream.
C29_MusterOnce ==
    [][\A cash_rolls \in ApiCashRolls :
         LET stored == get_character
             after == get_character'
         IN  (/\ Found
              /\ stored.mustering_out_benefits.done
              /\ muster_out_character(cash_rolls)) =>
                /\ raised' # "none"
                /\ after.mustering_out_benefits = stored.mustering_out_benefits
                /\ after.characteristics = stored.characteristics
                /\ after.career_history = stored.career_history
                /\ after.random_state = stored.random_state
                /\ rng' = rng
                /\ file' = file]_vars

C29_Witness ==
    /\ raised = "400 Character has already mustered out"
    /\ character.mustering_out_benefits.done
    /\ Last(History).event_type = "mustering_out_summary"
    /\ Last(History).total_rolls >= 1
    /\ CountEvents(History, "mustering_out_summary") = 1

\* C2: in a serial sequence of roll-performing requests on one character
\* each request starts at the stream position where the previous one
\* stopped: no position is consumed twice and none is skipped.
C2_RequestsContiguous ==
    \A i \in 1 .. Len(consumed) - 1 :
        (consumed[i].op \in RollRequests /\ consumed[i + 1].op \in RollRequests) =>
            consumed[i + 1].first = consumed[i].next

\* C3: the positions consumed when the character is initialized (name
\* generation) are never consumed again by the first enlistment or any
\* later operation.
C3_InitialDrawsNotReused ==
    \A i, j \in 1 .. Len(consumed) :
        (i < j /\ consumed[i].op = "initialize") =>
            consumed[j].first >= consumed[i].next

\* C15: a commission check that is inapplicable (already commissioned,
\* career Scouts or Others, or drafted with terms_served < 1) and a promotion
\* check that is inapplicable (not commissioned, career Scouts or Others, or
\* rank at the career ceiling) draw no dice, leave commissioned, rank and
\* skill_eligibility unchanged, raise nothing and append exactly one event
\* with applicable = false, success = false and a reason.
C15_InapplicableChecks ==
    [][LET career == character.career
           ceiling == CASE career = "Merchants" -> 5 [] OTHER -> 6
           commission_inapplicable ==
               \/ character.commissioned
               \/ career \in {"Scouts", "Others"}
               \/ character.drafted /\ character.terms_served < 1
           promotion_inapplicable ==
               \/ ~character.commissioned
               \/ career \in {"Scouts", "Others"}
               \/ (career \in {"Navy", "Marines", "Army", "Merchants"}
                     /\ character.rank >= ceiling)
           e == Last(character'.career_history)
           Recorded(event_type) ==
               /\ rng' = rng
               /\ raised' = "none"
               /\ character'.commissioned = character.commissioned
               /\ character'.rank = character.rank
               /\ character'.skill_eligibility = character.skill_eligibility
               /\ character'.career_history = Append(character.career_history, e)
               /\ e.event_type = event_type
               /\ ~e.applicable
               /\ ~e.success
               /\ "roll" \notin DOMAIN e
               /\ e.reason # ""
       IN  career # "" =>
            /\ (RankCommission /\ commission_inapplicable) => Recorded("commission_check")
            /\ (RankPromotion /\ promotion_inapplicable) => Recorded("promotion_check")]_vars

C15_Witness ==
    /\ Len(History) = MaxRankHistory
    /\ Last(History).event_type = "promotion_check"
    /\ ~Last(History).applicable
    /\ Last(History).reason = "Character has reached maximum rank"
    /\ character.rank = max_ranks(character.career)
    /\ History[2].event_type = "commission_check"
    /\ History[2].success

\* C16: an applicable commission check draws exactly one 2d6 and succeeds
\* exactly when roll + bonus >= target (Navy 10, Marines 9, Army 5,
\* Merchants 4; bonus +1 for Navy SOC >= 9, Marines EDU >= 7, Army END >= 7,
\* Merchants INT >= 9); on success commissioned becomes true, rank becomes 1
\* and skill_eligibility rises by exactly 1; on failure all three are
\* unchanged.
C16_CommissionRule ==
    [][LET career == character.career
           c == character.characteristics
           applicable ==
               /\ career \in {"Navy", "Marines", "Army", "Merchants"}
               /\ ~character.commissioned
               /\ ~(character.drafted /\ character.terms_served < 1)
           target == CASE career = "Navy" -> 10 [] career = "Marines" -> 9
                       [] career = "Army" -> 5 [] OTHER -> 4
           met == CASE career = "Navy" -> Get(c, "social") >= 9
                    [] career = "Marines" -> Get(c, "education") >= 7
                    [] career = "Army" -> Get(c, "endurance") >= 7
                    [] OTHER -> Get(c, "intelligence") >= 9
           bonus == IF met THEN 1 ELSE 0
           roll == roll_2d6(rng).value
           pass == roll + bonus >= target
           e == Last(character'.career_history)
       IN  (FirstCommission /\ applicable) =>
            /\ rng' = [rng EXCEPT !.pos = @ + 2]
            /\ character'.career_history = Append(character.career_history, e)
            /\ e.event_type = "commission_check"
            /\ e.applicable
            /\ e.roll = roll
            /\ e.success <=> pass
            /\ pass => /\ character'.commissioned
                       /\ character'.rank = 1
                       /\ character'.skill_eligibility = character.skill_eligibility + 1
            /\ ~pass => /\ character'.commissioned = character.commissioned
                        /\ character'.rank = character.rank
                        /\ character'.skill_eligibility = character.skill_eligibility]_vars

C16_Witness ==
    /\ Len(History) = 3
    /\ History[2].event_type = "commission_check"
    /\ History[2].applicable /\ ~History[2].success
    /\ History[2].total = History[2].target - 1
    /\ History[3].event_type = "commission_check"
    /\ History[3].applicable /\ History[3].success
    /\ History[3].total >= History[3].target
    /\ character.commissioned /\ character.rank = 1

\* C17: an applicable promotion check draws exactly one 2d6 and succeeds
\* exactly when roll + bonus >= target (Navy 8, Marines 9, Army 6,
\* Merchants 10; bonus +1 for Navy EDU >= 8, Marines SOC >= 8, Army EDU >= 7,
\* Merchants INT >= 9); on success rank and skill_eligibility each rise by
\* exactly 1; on failure both are unchanged.
C17_PromotionRule ==
    [][LET career == character.career
           c == character.characteristics
           ceiling == CASE career = "Merchants" -> 5 [] OTHER -> 6
           applicable ==
               /\ career \in {"Navy", "Marines", "Army", "Merchants"}
               /\ character.commissioned
               /\ character.rank < ceiling
               /\ (character.terms = <<>> \/ Last(character.terms).promotions = <<>>)
           target == CASE career = "Navy" -> 8 [] career = "Marines" -> 9
                       [] career = "Army" -> 6 [] OTHER -> 10
           met == CASE career = "Navy" -> Get(c, "education") >= 8
                    [] career = "Marines" -> Get(c, "social") >= 8
                    [] career = "Army" -> Get(c, "education") >= 7
                    [] OTHER -> Get(c, "intelligence") >= 9
           bonus == IF met THEN 1 ELSE 0
           roll == roll_2d6(rng).value
           pass == roll + bonus >= target
           e == Last(character'.career_history)
       IN  (FirstPromotion /\ applicable) =>
            /\ rng' = [rng EXCEPT !.pos = @ + 2]
            /\ character'.career_history = Append(character.career_history, e)
            /\ e.event_type = "promotion_check"
            /\ e.applicable
            /\ e.roll = roll
            /\ e.success <=> pass
            /\ character'.rank = character.rank + (IF pass THEN 1 ELSE 0)
            /\ character'.skill_eligibility =
                    character.skill_eligibility + (IF pass THEN 1 ELSE 0)]_vars

C17_Witness ==
    /\ Len(History) = 3
    /\ History[2].event_type = "commission_check" /\ History[2].success
    /\ History[3].event_type = "promotion_check"
    /\ History[3].applicable /\ History[3].success
    /\ History[3].total = History[3].target
    /\ History[3].career \in {"Navy", "Marines", "Merchants"}
    /\ character.rank = 2

\* C18: every attempt_enlistment raises skill_eligibility by exactly 2 when
\* terms_served is 0, and otherwise by 1, or by 2 when the assigned service
\* (chosen or drafted) is Scouts; the amount is recorded as
\* skill_eligibilities_granted in the enlistment event.
C18_EnlistmentGrant ==
    [][\A service \in EnlistChoices :
         LET e == Last(character'.career_history)
             granted == IF character.terms_served = 0 THEN 2
                        ELSE IF character'.career = "Scouts" THEN 2
                        ELSE 1
         IN  (/\ raised' # "none" \/ Appended("enlistment_attempt")
              /\ Enlist(service)) =>
               /\ raised' = "none"
               /\ character'.career_history = Append(character.career_history, e)
               /\ e.event_type = "enlistment_attempt"
               /\ e.assigned_service = character'.career
               /\ e.skill_eligibilities_granted = granted
               /\ character'.skill_eligibility =
                      character.skill_eligibility + granted]_vars

C18_Witness ==
    /\ Len(History) = 4
    /\ History[1].event_type = "enlistment_attempt"
    /\ History[1].assigned_service # "Scouts"
    /\ History[1].skill_eligibilities_granted = 2
    /\ History[4].event_type = "enlistment_attempt"
    /\ History[4].assigned_service # "Scouts"
    /\ History[4].skill_eligibilities_granted = 1
    /\ character.terms_served = 1

----------------------------------------------------------------------------
\* C1: a stream saved with save_random_state and restored with
\* get_random_generator continues exactly where the original stream stands:
\* its next K draws are the original's next K draws, for every K up to MaxK.
C1_SaveResumeRoundTrip ==
    (character.random_state = getstate(rng)) =>
        /\ resumed.raised = "none"
        /\ \A k \in 0 .. MaxK : DrawK(resumed.rng, k) = DrawK(rng, k)

C1_Witness ==
    /\ character.random_state = getstate(rng)
    /\ rng.pos >= 2
    /\ DrawK(resumed.rng, MaxK) = DrawK(rng, MaxK)
    /\ DrawK(rng, MaxK) # DrawK(Random(rng.seed), MaxK)

\* C4: generate_characteristic leaves the main stream where it was, so every
\* call made at one checkpoint with one attribute name returns one value,
\* which lies in 2..12, whatever was generated in between.
C4_CharacteristicIdempotent ==
    /\ rng.pos = CallerPos
    /\ \A a, b \in generated : a.name = b.name => a.value = b.value
    /\ \A a \in generated : a.value \in 2 .. 12

C4_Witness ==
    /\ rng.pos = 2
    /\ {a.name : a \in generated} = CharNames
    /\ Cardinality({a.value : a \in generated}) >= 3

\* C5: with a malformed random_state get_random_generator does not raise and
\* returns the fresh stream of the record's seed.
C5_MalformedFallsBack ==
    (character.random_state.kind \in MalformedKinds) =>
        /\ resumed.raised = "none"
        /\ resumed.rng = Random(character.seed)

====
